---- MODULE Spec2Model ----
(***************************************************************************)
(* Model of the signaling orchestration layer of WebRTCManager             *)
(* (src/unnamed/part_000): the WebSocket connection supervisor with        *)
(* exponential-backoff reconnection, and the per-peer offer/answer/ICE     *)
(* candidate negotiation.                                                   *)
(*                                                                         *)
(* The manager object is one record; every method of the class is an       *)
(* operator from manager record to manager record, so that a handler that  *)
(* calls other methods is the composition of their operators.  The         *)
(* variables are the fields of that record.  Every action is one task of   *)
(* the JavaScript event loop (an event callback, a timer callback, or the  *)
(* part of an async method between two await points).                      *)
(***************************************************************************)
EXTENDS Integers, Sequences, FiniteSets, TLC

\* ---------------------------------------------------------------- bounds
MaxSockets == 1        \* WebSocket objects alive at the same time
MaxOrphanTimers == 1   \* pending reconnect timeouts whose handle is lost
MaxOrphanPings == 1    \* active heartbeat intervals whose handle is lost
MaxToken == 2          \* distinct credentials the auth collaborator returns
MaxConnectTasks == 1   \* connect() calls suspended in fetchIceConfig
MaxUsers == 3          \* remote participant ids
MaxPc == 3             \* RTCPeerConnection objects alive at the same time
MaxTasks == 2          \* async handlers suspended at an await
MaxCands == 3          \* ICE candidates delivered in one run
MaxReqTimers == 1      \* pending 100 ms request_offer timeouts per user
MaxPeers == 1          \* remote participants that negotiate a link
MaxBurst == 52         \* ICE candidates delivered in a run that fills a queue
MaxMembers == 2         \* users that join and leave next to the peer

\* ------------------------------------------------------ program constants
maxReconnectAttempts == 10
BaseReconnectDelay == 1000
maxReconnectDelay == 30000
maxPresenters == 2
MaxPendingCandidates == 50
NormalClose == 1000
KickedBase == 4000

Tokens == 0..MaxToken          \* 0: Auth.getToken() returns nothing
Users == 1..MaxUsers
Peers == 1..MaxPeers
RemoteId == 1                  \* the user id of the remote presenter
Members == 1..MaxMembers
PcIds == 1..MaxPc
TaskIds == 1..MaxTasks
\* close codes an onclose event can carry
CloseCodes == {1000, 1001, 1006, 3999, 4000, 4002}

Min(a, b) == IF a < b THEN a ELSE b

VARIABLES
  wsState,             \* this.wsState
  reconnectAttempts,   \* this.reconnectAttempts
  reconnectDelay,      \* this.reconnectDelay
  reconnectTimeoutId,  \* this.reconnectTimeoutId: 0 (null) or 1 (a handle)
  shouldReconnect,     \* this.shouldReconnect
  manualDisconnect,    \* this.manualDisconnect
  ws,                  \* this.ws: 0 (null) or 1 (the latest WebSocket)
  pingInterval,        \* this.pingInterval: 0 (undefined) or 1 (a handle)
  wsSock,              \* the WebSocket this.ws names
  orphanSocks,         \* the WebSockets alive that this.ws names no longer
  timerArmed,          \* the timeout the last setTimeout created is pending
  orphanTimers,        \* pending timeouts created by earlier setTimeout calls
  pingActive,          \* the interval the last setInterval created is active
  orphanPings,         \* active intervals created by earlier setInterval calls
  connectTasks,        \* connect() calls suspended in await fetchIceConfig()
  localStream,         \* this.localStream: TRUE when a stream is held
  isScreenSharing,     \* this.isScreenSharing
  isCameraSharing,     \* this.isCameraSharing
  myUserId,            \* this.myUserId: 0 until room_state names it
  presenters,          \* this.presenters: the ids that are keys of the table
  remoteStreams,       \* this.remoteStreams: the ids that have a stream
  peerConnections,     \* this.peerConnections: entries in insertion order
  pendingIceCandidates,\* this.pendingIceCandidates: user id -> queue
  pcs,                 \* the RTCPeerConnection objects
  tasks,               \* async handlers suspended at an await
  viewerAudioConnections, \* this.viewerAudioConnections: user id -> link
  viewerAudioPc,       \* this.viewerAudioPc: TRUE when a link is held
  audioStream,         \* this.audioStream: TRUE when a stream is held
  currentPresenterId,  \* this.currentPresenterId: 0 (unset) or a user id
  isHost,              \* this.isHost, the argument of the constructor
  audioLink,           \* the RTCPeerConnection this.viewerAudioPc names
  reqTimers,           \* pending 100 ms request_offer timeouts, per user
  nextCand,            \* arrival number of the next ICE candidate
  authToken,           \* what Auth.getToken() returns now (0: nothing)
  remote,              \* a second presenter running the same class, and the
                       \* frames in flight between it and this.ws
  emitted,             \* callbacks and results produced by the last task
  sent                 \* frames handed to ws.send by the last task

vars == <<wsState, reconnectAttempts, reconnectDelay, reconnectTimeoutId,
          shouldReconnect, manualDisconnect, ws, pingInterval, wsSock, orphanSocks,
          timerArmed, orphanTimers, pingActive, orphanPings, connectTasks, localStream, isScreenSharing,
          isCameraSharing, myUserId, presenters, remoteStreams,
          peerConnections, pendingIceCandidates, pcs, tasks,
          viewerAudioConnections, viewerAudioPc, audioStream,
          currentPresenterId, isHost, audioLink, reqTimers, nextCand,
          authToken, remote, emitted, sent>>

\* ------------------------------------------------------------ the record
Ev(name, st, a, d) == [ev |-> name, st |-> st, a |-> a, d |-> d]
Frame(type, target, x) == [type |-> type, target |-> target, x |-> x]

\* a WebSocket: its readyState, and who awaits the promise that
\* createWebSocketConnection returned for it while that promise is pending
ClosedSock == [st |-> "closed", origin |-> "none"]

\* an RTCPeerConnection: the attributes the class reads, the candidates
\* handed to addIceCandidate (applied), the candidates queued on its behalf
\* (queued), and its operations chain (the tasks whose operation is pending)
NoPc ==
  [alloc |-> FALSE, user |-> 0, signalingState |-> "stable",
   remoteDescription |-> "none", localDescription |-> "none",
   connectionState |-> "new", videoSender |-> FALSE, audioSender |-> FALSE,
   applied |-> <<>>, queued |-> {}, chain |-> <<>>]
NewPc(u) == [NoPc EXCEPT !.alloc = TRUE, !.user = u]

\* the link of a speaking viewer, held by viewerAudioConnections
NoAudioPc ==
  [alloc |-> FALSE, remoteDescription |-> FALSE, applied |-> <<>>,
   connectionState |-> "new"]

\* the link a viewer speaks through: its operations chain as for NoPc
NoAudioLink ==
  [signalingState |-> "stable", remoteDescription |-> FALSE, chain |-> <<>>]
NoQueue == [has |-> FALSE, q |-> <<>>]

\* a suspended async handler: the method (kind), the await it is suspended
\* at (pos), its caller (outer) and its local variables
Idle ==
  [kind |-> "idle", pos |-> "", outer |-> "", user |-> 0, pc |-> 0, idx |-> 0,
   arr |-> <<>>, attached |-> FALSE, visited |-> {}, share |-> ""]

Cur ==
  [wsState |-> wsState, reconnectAttempts |-> reconnectAttempts,
   reconnectDelay |-> reconnectDelay,
   reconnectTimeoutId |-> reconnectTimeoutId,
   shouldReconnect |-> shouldReconnect, manualDisconnect |-> manualDisconnect,
   ws |-> ws, pingInterval |-> pingInterval, wsSock |-> wsSock,
   orphanSocks |-> orphanSocks,
   timerArmed |-> timerArmed, orphanTimers |-> orphanTimers,
   pingActive |-> pingActive, orphanPings |-> orphanPings,
   connectTasks |-> connectTasks, localStream |-> localStream,
   isScreenSharing |-> isScreenSharing, isCameraSharing |-> isCameraSharing,
   myUserId |-> myUserId, presenters |-> presenters,
   remoteStreams |-> remoteStreams, peerConnections |-> peerConnections,
   pendingIceCandidates |-> pendingIceCandidates, pcs |-> pcs,
   tasks |-> tasks, viewerAudioConnections |-> viewerAudioConnections,
   viewerAudioPc |-> viewerAudioPc, audioStream |-> audioStream,
   currentPresenterId |-> currentPresenterId,
   isHost |-> isHost, audioLink |-> audioLink,
   reqTimers |-> reqTimers, nextCand |-> nextCand,
   authToken |-> authToken, remote |-> remote,
   emitted |-> <<>>, sent |-> <<>>, overflow |-> FALSE]

\* overflow: the task needs more timers, sockets or intervals than the
\* bounds of the model provide
Overflow(r) == [r EXCEPT !.overflow = TRUE]

\* the remote presenter as this model tracks it: on (it takes part),
\* screen (its isScreenSharing), tracksUs (its presenters table names the
\* local participant), holdsUs (its remoteStreams holds the local stream),
\* timer (its 100 ms timeout is pending); reqIn, offerIn, startedIn: a frame
\* of that type is in flight to it; reqOut, offerOut: one is in flight from it
NoRemote ==
  [on |-> FALSE, screen |-> FALSE, tracksUs |-> FALSE, holdsUs |-> FALSE,
   timer |-> FALSE, reqIn |-> FALSE, offerIn |-> FALSE, startedIn |-> FALSE,
   reqOut |-> FALSE, offerOut |-> FALSE]

\* the frames the task handed to ws.send travel to the remote presenter
Wire(r) ==
  LET to(type, target) ==
        \E i \in DOMAIN r.sent :
          r.sent[i].type = type /\ r.sent[i].target = target
  IN IF ~r.remote.on THEN r.remote
     ELSE [r.remote EXCEPT
             !.reqIn = @ \/ to("request_offer", RemoteId),
             !.offerIn = @ \/ to("offer", RemoteId),
             !.startedIn = @ \/ to("screen_share_started", 0)]

\* the record is evaluated once and its fields become the next state
Commit(next) ==
  \E r \in {next} :
    /\ ~r.overflow
    /\ remote' = Wire(r)
    /\ wsState' = r.wsState
    /\ reconnectAttempts' = r.reconnectAttempts
    /\ reconnectDelay' = r.reconnectDelay
    /\ reconnectTimeoutId' = r.reconnectTimeoutId
    /\ shouldReconnect' = r.shouldReconnect
    /\ manualDisconnect' = r.manualDisconnect
    /\ ws' = r.ws
    /\ pingInterval' = r.pingInterval
    /\ wsSock' = r.wsSock
    /\ orphanSocks' = r.orphanSocks
    /\ timerArmed' = r.timerArmed
    /\ orphanTimers' = r.orphanTimers
    /\ pingActive' = r.pingActive
    /\ orphanPings' = r.orphanPings
    /\ connectTasks' = r.connectTasks
    /\ localStream' = r.localStream
    /\ isScreenSharing' = r.isScreenSharing
    /\ isCameraSharing' = r.isCameraSharing
    /\ myUserId' = r.myUserId
    /\ presenters' = r.presenters
    /\ remoteStreams' = r.remoteStreams
    /\ peerConnections' = r.peerConnections
    /\ pendingIceCandidates' = r.pendingIceCandidates
    /\ pcs' = r.pcs
    /\ tasks' = r.tasks
    /\ viewerAudioConnections' = r.viewerAudioConnections
    /\ viewerAudioPc' = r.viewerAudioPc
    /\ audioStream' = r.audioStream
    /\ currentPresenterId' = r.currentPresenterId
    /\ isHost' = r.isHost
    /\ audioLink' = r.audioLink
    /\ reqTimers' = r.reqTimers
    /\ nextCand' = r.nextCand
    /\ authToken' = r.authToken
    /\ emitted' = r.emitted
    /\ sent' = r.sent

Emit(r, e) == [r EXCEPT !.emitted = Append(@, e)]

\* console.log / console.error lines that tell which handler ran
Log(r, msg, a) == Emit(r, Ev("log", msg, a, 0))

\* the observer hooks; all of them are registered in the model
onConnectionStateChange(r, state) == 
  Emit(r, Ev("onConnectionStateChange", state, 0, 0))
onReconnecting(r, attempt, delay) == 
  Emit(r, Ev("onReconnecting", "", attempt, delay))
onReconnected(r) == Emit(r, Ev("onReconnected", "", 0, 0))
onReconnectFailed(r) == Emit(r, Ev("onReconnectFailed", "", 0, 0))

Pow2(n) == 2 ^ n

\* the WebSockets that are not closed: designator 0 is the one this.ws
\* names, i > 0 the i-th of the others (kept in a canonical order)
LiveSockets(r) ==
  (IF r.wsSock.st # "closed" THEN {0} ELSE {}) \cup DOMAIN r.orphanSocks
SockAt(r, d) == IF d = 0 THEN r.wsSock ELSE r.orphanSocks[d]
SockRank(sk) ==
  CASE sk.st = "connecting" -> IF sk.origin = "connect" THEN 1 ELSE 2
    [] sk.st = "open" -> 3
    [] sk.st = "closingC" -> IF sk.origin = "connect" THEN 4 ELSE 5
    [] sk.st = "closingO" -> 6
    [] OTHER -> 7
InsertSock(sq, sk) ==
  LET k == Cardinality({i \in DOMAIN sq : SockRank(sq[i]) <= SockRank(sk)})
  IN SubSeq(sq, 1, k) \o <<sk>> \o SubSeq(sq, k + 1, Len(sq))
RemoveAt(sq, i) == SubSeq(sq, 1, i - 1) \o SubSeq(sq, i + 1, Len(sq))
\* the socket d changes to sk (readyState, settled promise) or goes away
SetSock(r, d, sk) ==
  IF d = 0 THEN [r EXCEPT !.wsSock = sk]
  ELSE IF sk.st = "closed"
  THEN [r EXCEPT !.orphanSocks = RemoveAt(@, d)]
  ELSE [r EXCEPT !.orphanSocks = InsertSock(RemoveAt(@, d), sk)]
\* setTimeout / setInterval return a new handle; the assignment to
\* this.reconnectTimeoutId / this.pingInterval loses the handle held before
setTimeoutReconnect(r, delay) ==
  LET r1 == Emit(r, Ev("setTimeout", "", r.reconnectAttempts, delay))
  IN IF r.timerArmed
     THEN IF r.orphanTimers >= MaxOrphanTimers THEN Overflow(r)
          ELSE [r1 EXCEPT !.orphanTimers = @ + 1, !.reconnectTimeoutId = 1]
     ELSE [r1 EXCEPT !.timerArmed = TRUE, !.reconnectTimeoutId = 1]

setIntervalPing(r) ==
  IF r.pingActive
  THEN IF r.orphanPings >= MaxOrphanPings THEN Overflow(r)
       ELSE [r EXCEPT !.orphanPings = @ + 1, !.pingInterval = 1]
  ELSE [r EXCEPT !.pingActive = TRUE, !.pingInterval = 1]
Lowest(S) == CHOOSE x \in S : \A y \in S : x <= y

\* ------------------------------------------------------------- heartbeat
wsOpen(r) == r.ws # 0 /\ r.wsSock.st = "open"

sendUnguarded(r, frame) == [r EXCEPT !.sent = Append(@, frame)]

send(r, frame) ==
  IF wsOpen(r) THEN [r EXCEPT !.sent = Append(@, frame)] ELSE r

startPingInterval(r) == setIntervalPing(r)

stopPingInterval(r) ==
  IF r.pingInterval # 0
  THEN [r EXCEPT !.pingActive = FALSE]
  ELSE r

\* one firing of a heartbeat interval
pingTick(r) == send(r, Frame("ping", 0, 0))

\* ------------------------------------------------------------ reconnect
ReconnectDelayForUncapped(r, attempt) ==
  r.reconnectDelay * Pow2(attempt - 1)

ReconnectDelayFor(r, attempt) ==
  Min(r.reconnectDelay * Pow2(attempt - 1), maxReconnectDelay)

startReconnectUnbounded(r) ==
  IF r.wsState = "reconnecting"
  THEN r
  ELSE
    LET attempt == r.reconnectAttempts + 1
        currentDelay == ReconnectDelayFor(r, attempt)
        r1 == [r EXCEPT !.wsState = "reconnecting",
                        !.reconnectAttempts = attempt]
        r2 == onConnectionStateChange(
                onReconnecting(r1, attempt, currentDelay), "reconnecting")
    IN setTimeoutReconnect(r2, currentDelay)

startReconnect(r) ==
  IF r.reconnectAttempts >= maxReconnectAttempts
  THEN onConnectionStateChange(
         onReconnectFailed([r EXCEPT !.wsState = "failed"]), "failed")
  ELSE IF r.wsState = "reconnecting"
  THEN r
  ELSE
    LET attempt == r.reconnectAttempts + 1
        currentDelay == ReconnectDelayFor(r, attempt)
        r1 == [r EXCEPT !.wsState = "reconnecting",
                        !.reconnectAttempts = attempt]
        r2 == onConnectionStateChange(
                onReconnecting(r1, attempt, currentDelay), "reconnecting")
    IN setTimeoutReconnect(r2, currentDelay)

cancelReconnect(r) ==
  LET r1 == IF r.reconnectTimeoutId # 0
            THEN [r EXCEPT !.timerArmed = FALSE,
                           !.reconnectTimeoutId = 0]
            ELSE r
  IN [r1 EXCEPT !.shouldReconnect = FALSE,
                !.manualDisconnect = TRUE,
                !.wsState = "disconnected"]

\* ------------------------------------------------------------ transport
\* a variant that starts every transport from an empty room
createWebSocketConnectionForgetting(r, origin, tok) ==
  IF Cardinality(LiveSockets(r)) >= MaxSockets THEN Overflow(r)
  ELSE
  LET r1 == IF r.wsSock.st # "closed"
            THEN [r EXCEPT !.orphanSocks = InsertSock(@, r.wsSock)]
            ELSE r
      r2 == [r1 EXCEPT !.wsState = "connecting",
                       !.wsSock = [st |-> "connecting", origin |-> origin],
                       !.ws = 1,
                       !.presenters = {},
                       !.remoteStreams = {}]
  IN Emit(r2, Ev("open-transport", origin, tok, 0))

\* new Promise(...) in createWebSocketConnection: origin names who awaits it
createWebSocketConnection(r, origin, tok) ==
  IF Cardinality(LiveSockets(r)) >= MaxSockets THEN Overflow(r)
  ELSE
  LET r1 == IF r.wsSock.st # "closed"
            THEN [r EXCEPT !.orphanSocks = InsertSock(@, r.wsSock)]
            ELSE r
      r2 == [r1 EXCEPT !.wsState = "connecting",
                       !.wsSock = [st |-> "connecting", origin |-> origin],
                       !.ws = 1]
  IN Emit(r2, Ev("open-transport", origin, tok, 0))

\* resolve(true) / reject(error) for a promise that is still pending and
\* awaited by origin; the awaiting continuation runs at the microtask
\* checkpoint after the event listener
resolvePromise(r, origin) ==
  IF origin = "connect"
  THEN Emit(r, Ev("connect-returned-true", "", 0, 0))
  ELSE r

rejectPromise(r, origin) ==
  IF origin = "connect"
  THEN Emit(r, Ev("connect-rejected", "", 0, 0))
  ELSE IF origin = "timer"
  THEN startReconnect(r)    \* catch (e) in the timer callback
  ELSE r

onopenKeepCount(r, origin) ==
  LET r1 == Log([r EXCEPT !.wsState = "connected"], "WebSocket connected", 0)
      r2 == IF r1.reconnectAttempts > 0 THEN onReconnected(r1) ELSE r1
  IN resolvePromise(startPingInterval(r2), origin)

onopen(r, origin) ==
  LET r1 == Log([r EXCEPT !.wsState = "connected"], "WebSocket connected", 0)
      r2 == IF r1.reconnectAttempts > 0
            THEN onReconnected([r1 EXCEPT !.reconnectAttempts = 0,
                                          !.reconnectDelay = 1000])
            ELSE r1
  IN resolvePromise(startPingInterval(r2), origin)

IsManualCloseOnlyNormal(code) == code = NormalClose

IsManualClose(code) == code = NormalClose \/ code >= KickedBase

oncloseNoRetry(r, code) ==
  onConnectionStateChange(
    stopPingInterval(Log([r EXCEPT !.wsState = "disconnected"],
                         "WebSocket closed", code)), "disconnected")

onclose(r, code) ==
  LET r1 == stopPingInterval(
              Log([r EXCEPT !.wsState = "disconnected"],
                  "WebSocket closed", code))
  IN IF ~IsManualClose(code) /\ ~r1.manualDisconnect /\ r1.shouldReconnect
     THEN startReconnect(r1)
     ELSE onConnectionStateChange(r1, "disconnected")

onerrorSilent(r, origin) == r

onerror(r, origin) ==
  IF r.wsState = "connecting" /\ r.reconnectAttempts = 0
  THEN rejectPromise(r, origin)
  ELSE r

\* the callback given to setTimeout in startReconnect
reconnectTimerCallbackStale(r, tok) ==
  IF tok = 0
  THEN startReconnect(Log(r, "No token for reconnect", 0))
  ELSE createWebSocketConnection(r, "timer", 1)

reconnectTimerCallback(r, tok) ==
  IF tok = 0
  THEN startReconnect(Log(r, "No token for reconnect", 0))
  ELSE createWebSocketConnection(r, "timer", tok)

\* if (this.ws) this.ws.close()
closeSocket(r) ==
  IF r.ws = 0 THEN r
  ELSE IF r.wsSock.st = "connecting"
  THEN [r EXCEPT !.wsSock.st = "closingC"]
  ELSE IF r.wsSock.st = "open"
  THEN [r EXCEPT !.wsSock.st = "closingO"]
  ELSE r

\* ------------------------------------------------------ the peer registry
HasPeer(r, u) == \E i \in DOMAIN r.peerConnections : r.peerConnections[i].user = u
PcOf(r, u) ==
  IF HasPeer(r, u)
  THEN r.peerConnections[CHOOSE i \in DOMAIN r.peerConnections :
                           r.peerConnections[i].user = u].pc
  ELSE 0
FreePcs(r) == {p \in PcIds : ~r.pcs[p].alloc}
FreeTasks(r) == {t \in TaskIds : r.tasks[t].kind = "idle"}
InSeq(x, sq) == \E i \in DOMAIN sq : sq[i] = x

\* suspend task tid on an operation of link p: the operations of one link
\* complete in the order they were called
Await(r, tid, p, task) ==
  [r EXCEPT !.tasks[tid] = task, !.pcs[p].chain = Append(@, tid)]

\* pc.close(): the operations pending on a closed link never settle, so the
\* handlers suspended on them never resume
closePc(r, p) ==
  [r EXCEPT !.tasks = [t \in TaskIds |->
                         IF InSeq(t, r.pcs[p].chain) THEN Idle ELSE @[t]],
            !.pcs[p] = NoPc]

\* a link that is neither registered nor awaited is unreachable
gc(r) ==
  [r EXCEPT !.pcs = [p \in PcIds |->
       IF /\ @[p].alloc
          /\ @[p].chain = <<>>
          /\ ~\E i \in DOMAIN r.peerConnections : r.peerConnections[i].pc = p
       THEN NoPc ELSE @[p]]]

\* this.pendingIceCandidates.delete(u): a handler that is iterating the
\* deleted array keeps iterating it
deletePending(r, u) ==
  IF r.pendingIceCandidates[u].has
  THEN [r EXCEPT
         !.tasks = [t \in TaskIds |->
            IF @[t].attached /\ @[t].user = u
            THEN [@[t] EXCEPT !.arr = r.pendingIceCandidates[u].q,
                              !.attached = FALSE]
            ELSE @[t]],
         !.pendingIceCandidates[u] = NoQueue]
  ELSE r

\* Map.delete(u) of this.peerConnections: a running iteration visits a
\* key again when it is inserted again
deletePeer(r, u) ==
  [r EXCEPT !.peerConnections = SelectSeq(@, LAMBDA e : e.user # u),
            !.tasks = [t \in TaskIds |->
                         [@[t] EXCEPT !.visited = @ \ {u}]]]

createPeerConnectionFresh(r, u) ==
  LET existingPc == PcOf(r, u)
  IN IF FreePcs(r) = {} THEN Overflow(r)
     ELSE LET p == Lowest(FreePcs(r))
              r1 == [r EXCEPT !.pcs[p] = NewPc(u)]
          IN IF existingPc # 0
             THEN [r1 EXCEPT !.peerConnections =
                     [i \in DOMAIN @ |-> IF @[i].user = u
                                         THEN [user |-> u, pc |-> p]
                                         ELSE @[i]]]
             ELSE [r1 EXCEPT !.peerConnections =
                     Append(@, [user |-> u, pc |-> p])]

createPeerConnection(r, u) ==
  LET existingPc == PcOf(r, u)
  IN IF /\ existingPc # 0
        /\ r.pcs[existingPc].connectionState # "failed"
        /\ r.pcs[existingPc].connectionState # "closed"
     THEN r
     ELSE IF FreePcs(r) = {} THEN Overflow(r)
     ELSE LET p == Lowest(FreePcs(r))
              r1 == [r EXCEPT !.pcs[p] = NewPc(u)]
          IN IF existingPc # 0
             THEN [r1 EXCEPT !.peerConnections =
                     [i \in DOMAIN @ |-> IF @[i].user = u
                                         THEN [user |-> u, pc |-> p]
                                         ELSE @[i]]]
             ELSE [r1 EXCEPT !.peerConnections =
                     Append(@, [user |-> u, pc |-> p])]

\* let pc = this.peerConnections.get(u); if (!pc) pc = createPeerConnection(u)
getOrCreate(r, u) == IF HasPeer(r, u) THEN r ELSE createPeerConnection(r, u)

closePeerConnectionKeepQueue(r, u) ==
  LET pc == PcOf(r, u)
      r1 == IF pc # 0 THEN deletePeer(closePc(r, pc), u) ELSE r
  IN [r1 EXCEPT !.remoteStreams = @ \ {u}]

closePeerConnection(r, u) ==
  LET pc == PcOf(r, u)
      r1 == IF pc # 0 THEN deletePeer(closePc(r, pc), u) ELSE r
      r2 == deletePending(r1, u)
  IN [r2 EXCEPT !.remoteStreams = @ \ {u}]

cleanupUserResources(r, u) ==
  [deletePending(r, u) EXCEPT !.remoteStreams = @ \ {u}]

\* the handleViewerAudioOffer call that works on the registered link of u
\* (idx = 1; 0 once another offer of u has replaced the link in the map)
OnInbound(task, u) ==
  task.kind = "handleViewerAudioOffer" /\ task.user = u /\ task.idx = 1

\* pc.close() of the inbound link: the handler suspended on it never resumes
closeViewerAudioConnection(r, u) ==
  LET r1 == IF r.viewerAudioConnections[u].alloc
            THEN [r EXCEPT !.viewerAudioConnections[u] = NoAudioPc,
                           !.tasks = [t \in TaskIds |->
                              IF OnInbound(@[t], u) THEN Idle ELSE @[t]]]
            ELSE r
  IN deletePending(r1, u)

cleanupAllCandidates(r) ==
  [r EXCEPT !.pendingIceCandidates = [u \in Users |-> NoQueue],
            !.tasks = [t \in TaskIds |->
               IF @[t].attached
               THEN [@[t] EXCEPT
                       !.arr = r.pendingIceCandidates[r.tasks[t].user].q,
                       !.attached = FALSE]
               ELSE @[t]]]

cleanupAllRemoteStreams(r) == [r EXCEPT !.remoteStreams = {}]

\* pc.onconnectionstatechange
onconnectionstatechange(r, p, state) ==
  LET u == r.pcs[p].user
      r1 == Emit([r EXCEPT !.pcs[p].connectionState = state],
                 Ev("onConnectionStateChange", state, u, 0))
      r2 == IF state \in {"failed", "disconnected"}
            THEN deletePending(r1, u) ELSE r1
  IN IF state = "closed" THEN cleanupUserResources(r2, u) ELSE r2

\* ------------------------------------------------------- ICE candidates
\* pc.addIceCandidate(c) is called: the link takes candidates in call order
addIceCandidate(r, p, c) == [r EXCEPT !.pcs[p].applied = Append(@, c)]

queueCandidateUncapped(r, p, u, c) ==
  [r EXCEPT !.pendingIceCandidates[u].has = TRUE,
            !.pendingIceCandidates[u].q = Append(@, c),
            !.pcs[p].queued = @ \cup {c}]

queueCandidate(r, p, u, c) ==
  LET r1 == [r EXCEPT !.pendingIceCandidates[u].has = TRUE]
  IN IF Len(r1.pendingIceCandidates[u].q) < MaxPendingCandidates
     THEN [r1 EXCEPT !.pendingIceCandidates[u].q = Append(@, c),
                     !.pcs[p].queued = @ \cup {c}]
     ELSE r1

\* the second half of handleIceCandidate: the viewer-audio link of the sender
handleIceCandidateAudio(r, u, c) ==
  IF /\ r.viewerAudioConnections[u].alloc
     /\ c # 0
     /\ r.viewerAudioConnections[u].remoteDescription
  THEN [r EXCEPT !.viewerAudioConnections[u].applied = Append(@, c)]
  ELSE r

handleIceCandidateEager(r, u, c, tid) ==
  LET pc == PcOf(r, u)
  IN IF pc # 0 /\ c # 0
     THEN Await(addIceCandidate(r, pc, c), tid, pc,
                [Idle EXCEPT !.kind = "handleIceCandidate",
                             !.pos = "addIceCandidate",
                             !.user = u, !.pc = pc, !.idx = c])
     ELSE handleIceCandidateAudio(r, u, c)

\* c = 0 is a message without a candidate
handleIceCandidate(r, u, c, tid) ==
  LET pc == PcOf(r, u)
  IN IF pc # 0 /\ c # 0
     THEN IF r.pcs[pc].remoteDescription # "none"
          THEN Await(addIceCandidate(r, pc, c), tid, pc,
                     [Idle EXCEPT !.kind = "handleIceCandidate",
                                  !.pos = "addIceCandidate",
                                  !.user = u, !.pc = pc, !.idx = c])
          ELSE handleIceCandidateAudio(queueCandidate(r, pc, u, c), u, c)
     ELSE handleIceCandidateAudio(r, u, c)

\* ----------------------------------------------------------- negotiation
EndTask(r, tid) == [r EXCEPT !.tasks[tid] = Idle]

\* the array the drain loop of handleOffer iterates
DrainArray(r, task) ==
  IF task.attached THEN r.pendingIceCandidates[task.user].q ELSE task.arr

\* handleOffer after a successful setRemoteDescription, and after each awaited
\* addIceCandidate of the loop: task is the handler's frame, idx the index
\* of the next queued candidate
drainNext(r, tid, task, idx) ==
  IF task.pos = "drain" /\ idx <= Len(DrainArray(r, task))
  THEN Await(addIceCandidate(r, task.pc, DrainArray(r, task)[idx]),
             tid, task.pc, [task EXCEPT !.idx = idx])
  ELSE LET r1 == IF task.pos = "drain"
                 THEN deletePending([r EXCEPT !.tasks[tid].attached = FALSE],
                                    task.user)
                 ELSE r
       IN Await(r1, tid, task.pc,
                [task EXCEPT !.pos = "createAnswer", !.idx = 0,
                             !.arr = <<>>, !.attached = FALSE])

\* handleOffer up to await pc.setRemoteDescription(...)
handleOffer(r, u, tid) ==
  LET r1 == getOrCreate(r, u)
      pc == PcOf(r1, u)
  IN Await(r1, tid, pc,
           [Idle EXCEPT !.kind = "handleOffer",
                        !.pos = "setRemoteDescription",
                        !.user = u, !.pc = pc])

\* a remote offer is accepted in every signaling state of an open link
\* (an offer pending locally is rolled back)
setRemoteOffer(r, p) ==
  [r EXCEPT !.pcs[p].signalingState = "have-remote-offer",
            !.pcs[p].remoteDescription = "offer"]

CanSetRemoteAnswer(r, p) == r.pcs[p].signalingState = "have-local-offer"
setRemoteAnswer(r, p) ==
  [r EXCEPT !.pcs[p].signalingState = "stable",
            !.pcs[p].remoteDescription = "answer"]

CanSetLocalAnswer(r, p) == r.pcs[p].signalingState = "have-remote-offer"
setLocalAnswer(r, p) ==
  [r EXCEPT !.pcs[p].signalingState = "stable",
            !.pcs[p].localDescription = "answer"]

CanSetLocalOffer(r, p) ==
  r.pcs[p].signalingState \in {"stable", "have-local-offer"}
setLocalOffer(r, p) ==
  [r EXCEPT !.pcs[p].signalingState = "have-local-offer",
            !.pcs[p].localDescription = "offer"]

\* handleOffer resumes: ok tells whether the awaited operation fulfilled
handleOfferResume(r, tid, ok) ==
  LET task == r.tasks[tid]
      p == task.pc
      u == task.user
  IN CASE task.pos = "setRemoteDescription" ->
            IF ok
            THEN LET r1 == setRemoteOffer(r, p)
                 IN IF r1.pendingIceCandidates[u].has
                    THEN drainNext(r1, tid,
                                   [task EXCEPT !.pos = "drain",
                                                !.attached = TRUE], 1)
                    ELSE drainNext(r1, tid, task, 0)
            ELSE Log(EndTask(r, tid), "Error handling offer from", u)
       [] task.pos = "drain" -> drainNext(r, tid, task, task.idx + 1)
       [] task.pos = "createAnswer" ->
            IF ok
            THEN Await(r, tid, p, [task EXCEPT !.pos = "setLocalDescription"])
            ELSE Log(EndTask(r, tid), "Error handling offer from", u)
       [] task.pos = "setLocalDescription" ->
            IF ok
            THEN send(EndTask(setLocalAnswer(r, p), tid),
                      Frame("answer", u, "answer"))
            ELSE Log(EndTask(r, tid), "Error handling offer from", u)

handleAnswerAnyState(r, u, tid) ==
  LET pc == PcOf(r, u)
  IN IF pc # 0
     THEN Await(r, tid, pc,
                [Idle EXCEPT !.kind = "handleAnswer",
                             !.pos = "setRemoteDescription",
                             !.user = u, !.pc = pc])
     ELSE r

\* handleAnswer up to await pc.setRemoteDescription(...)
handleAnswer(r, u, tid) ==
  LET pc == PcOf(r, u)
  IN IF pc # 0 /\ r.pcs[pc].signalingState = "have-local-offer"
     THEN Await(r, tid, pc,
                [Idle EXCEPT !.kind = "handleAnswer",
                             !.pos = "setRemoteDescription",
                             !.user = u, !.pc = pc])
     ELSE r

\* handleAnswer has no try/catch: a rejected setRemoteDescription leaves
\* handleMessage as an unhandled rejection
handleAnswerResumeClosing(r, tid, ok) ==
  IF ok THEN EndTask(setRemoteAnswer(r, r.tasks[tid].pc), tid)
  ELSE closePeerConnection(
         Emit(EndTask(r, tid),
              Ev("unhandledrejection", "handleAnswer", r.tasks[tid].user, 0)),
         r.tasks[tid].user)

handleAnswerResume(r, tid, ok) ==
  IF ok THEN EndTask(setRemoteAnswer(r, r.tasks[tid].pc), tid)
  ELSE Emit(EndTask(r, tid),
            Ev("unhandledrejection", "handleAnswer", r.tasks[tid].user, 0))

handleIceCandidateResume(r, tid) ==
  handleIceCandidateAudio(EndTask(r, tid), r.tasks[tid].user, r.tasks[tid].idx)

\* ------------------------------------------------------------- offering
RECURSIVE createOfferForUser(_, _, _, _)
RECURSIVE afterOffer(_, _, _)

\* the first key of this.peerConnections the iteration has not visited
Unvisited(r, task) ==
  {i \in DOMAIN r.peerConnections :
     r.peerConnections[i].user \notin task.visited}

\* handleMessage("request_offer") after createOfferForUser: ask a presenter
\* whose stream is missing for its offer, 100 ms later
requestOfferBack(r, from) ==
  IF from \in r.presenters /\ from \notin r.remoteStreams /\ from # r.myUserId
  THEN IF r.reqTimers[from] >= MaxReqTimers THEN Overflow(r)
       ELSE [r EXCEPT !.reqTimers[from] = @ + 1]
  ELSE r

\* if (pc.signalingState === "stable") { await pc.createOffer(...) ... }
offerStateCheck(r, tid, task) ==
  IF r.pcs[task.pc].signalingState = "stable"
  THEN Await(r, tid, task.pc, [task EXCEPT !.pos = "createOffer"])
  ELSE afterOffer(r, tid, task)

createOfferForUser(r, tid, task, u) ==
  IF ~r.localStream
  THEN afterOffer(r, tid, task)
  ELSE LET r1 == getOrCreate(r, u)
           pc == PcOf(r1, u)
           t1 == [task EXCEPT !.kind = "createOfferForUser",
                              !.user = u, !.pc = pc]
       IN IF r1.pcs[pc].videoSender
          THEN Await(r1, tid, pc, [t1 EXCEPT !.pos = "replaceTrack"])
          ELSE offerStateCheck([r1 EXCEPT !.pcs[pc].videoSender = TRUE],
                               tid, t1)

\* the caller of createOfferForUser resumes
afterOffer(r, tid, task) ==
  CASE task.outer = "startShare" ->
         IF Unvisited(r, task) # {}
         THEN LET u == r.peerConnections[Lowest(Unvisited(r, task))].user
              IN createOfferForUser(r, tid,
                                    [task EXCEPT !.visited = @ \cup {u}], u)
         ELSE Emit(EndTask(r, tid), Ev("share-returned", task.share, 0, 0))
    [] task.outer = "user_joined" -> EndTask(r, tid)
    [] task.outer = "request_offer" ->
         requestOfferBack(EndTask(r, tid), task.user)

createOfferResume(r, tid, ok) ==
  LET task == r.tasks[tid]
  IN CASE task.pos = "replaceTrack" -> offerStateCheck(r, tid, task)
       [] task.pos = "createOffer" ->
            IF ok
            THEN Await(r, tid, task.pc,
                       [task EXCEPT !.pos = "setLocalDescription"])
            ELSE afterOffer(Log(r, "Error creating offer for", task.user),
                            tid, task)
       [] task.pos = "setLocalDescription" ->
            IF ok
            THEN afterOffer(send(setLocalOffer(r, task.pc),
                                 Frame("offer", task.user, "offer")),
                            tid, task)
            ELSE afterOffer(Log(r, "Error creating offer for", task.user),
                            tid, task)

\* --------------------------------------------------------------- sharing
canShareUpToCap(r) ==
  IF r.isScreenSharing \/ r.isCameraSharing THEN TRUE
  ELSE Cardinality(r.presenters) <= maxPresenters

canShare(r) ==
  IF r.isScreenSharing \/ r.isCameraSharing THEN TRUE
  ELSE Cardinality(r.presenters) < maxPresenters

startShareUnchecked(r, kind, tid) ==
  [r EXCEPT !.tasks[tid] =
     [Idle EXCEPT !.kind = "startShare", !.pos = "getMedia",
                  !.outer = "startShare", !.share = kind]]

\* startScreenShare / startCameraShare up to the await of the media request
startShare(r, kind, tid) ==
  IF ~canShare(r)
  THEN Emit(r, Ev("share-rejected", kind, 0, 0))
  ELSE [r EXCEPT !.tasks[tid] =
          [Idle EXCEPT !.kind = "startShare", !.pos = "getMedia",
                       !.outer = "startShare", !.share = kind]]

startShareResume(r, tid, ok) ==
  LET task == r.tasks[tid]
  IN IF ok
     THEN LET r1 == [r EXCEPT !.localStream = TRUE,
                              !.isScreenSharing = (task.share = "screen"),
                              !.isCameraSharing = (task.share = "camera")]
              r2 == send(r1, Frame("screen_share_started", 0, task.share))
          IN afterOffer(r2, tid, task)
     ELSE Emit(EndTask(r, tid), Ev("share-failed", task.share, 0, 0))

RECURSIVE closeAllPeers(_)
closeAllPeers(r) ==
  IF r.peerConnections = <<>> THEN r
  ELSE closeAllPeers(closePeerConnection(r, r.peerConnections[1].user))

stopScreenShare(r) ==
  LET r1 == [r EXCEPT !.localStream = FALSE, !.isScreenSharing = FALSE,
                      !.isCameraSharing = FALSE]
  IN closeAllPeers(send(r1, Frame("screen_share_stopped", 0, "")))

stopCameraShare(r) ==
  LET r1 == [r EXCEPT !.localStream = FALSE, !.isCameraSharing = FALSE]
  IN closeAllPeers(send(r1, Frame("screen_share_stopped", 0, "")))

\* ----------------------------------------------------------- viewer audio
\* this.viewerAudioPc.close(): the handlers suspended on the link never
\* resume
closeAudioLink(r) ==
  [r EXCEPT !.tasks = [t \in TaskIds |->
                         IF InSeq(t, r.audioLink.chain) THEN Idle ELSE @[t]],
            !.audioLink = NoAudioLink,
            !.viewerAudioPc = FALSE]

AwaitAudio(r, tid, task) ==
  [r EXCEPT !.tasks[tid] = task, !.audioLink.chain = Append(@, tid)]

\* addAudioTrack up to await navigator.mediaDevices.getUserMedia(...)
addAudioTrack(r, tid) ==
  [r EXCEPT !.tasks[tid] =
     [Idle EXCEPT !.kind = "addAudioTrack", !.pos = "getUserMedia"]]

\* setupViewerAudioConnection up to await pc.createOffer()
setupViewerAudioConnection(r, tid) ==
  LET r1 == IF r.viewerAudioPc THEN closeAudioLink(r) ELSE r
      r2 == [r1 EXCEPT !.viewerAudioPc = TRUE, !.audioLink = NoAudioLink]
  IN AwaitAudio(r2, tid, [Idle EXCEPT !.kind = "addAudioTrack",
                                      !.pos = "createOffer"])

\* addAudioTrack and setupViewerAudioConnection resume. A presenter gets an
\* audio sender on every registered link (replaceTrack of a sender that
\* exists changes no attribute held here)
addAudioTrackResume(r, tid, ok) ==
  LET task == r.tasks[tid]
  IN CASE task.pos = "getUserMedia" ->
            IF ~ok
            THEN Emit(EndTask(r, tid), Ev("audio-failed", "", 0, 0))
            ELSE IF r.localStream /\ (r.isScreenSharing \/ r.isCameraSharing)
            THEN EndTask(
                   [r EXCEPT !.pcs = [p \in PcIds |->
                      IF \E i \in DOMAIN r.peerConnections :
                           r.peerConnections[i].pc = p
                      THEN [@[p] EXCEPT !.audioSender = TRUE] ELSE @[p]]],
                   tid)
            ELSE IF r.currentPresenterId # 0
            THEN setupViewerAudioConnection(
                   [r EXCEPT !.audioStream = TRUE], tid)
            ELSE EndTask([r EXCEPT !.audioStream = TRUE], tid)
       [] task.pos = "createOffer" ->
            IF ok
            THEN AwaitAudio(r, tid, [task EXCEPT !.pos = "setLocalDescription"])
            ELSE Emit(EndTask(r, tid), Ev("audio-failed", "", 0, 0))
       [] task.pos = "setLocalDescription" ->
            IF ok
            THEN send(EndTask([r EXCEPT !.audioLink.signalingState =
                                          "have-local-offer"], tid),
                      Frame("viewer_audio_offer", r.currentPresenterId, "offer"))
            ELSE Emit(EndTask(r, tid), Ev("audio-failed", "", 0, 0))

\* handleViewerAudioAnswer up to await setRemoteDescription(...)
handleViewerAudioAnswer(r, tid) ==
  IF r.viewerAudioPc
  THEN AwaitAudio(r, tid, [Idle EXCEPT !.kind = "handleViewerAudioAnswer",
                                       !.pos = "setRemoteDescription"])
  ELSE r

handleViewerAudioAnswerResume(r, tid, ok) ==
  IF ok
  THEN EndTask([r EXCEPT !.audioLink.signalingState = "stable",
                         !.audioLink.remoteDescription = TRUE], tid)
  ELSE EndTask(r, tid)

\* handleViewerAudioOffer up to await pc.setRemoteDescription(...): the new
\* link replaces the one the map holds for u, which is not closed
handleViewerAudioOffer(r, u, tid) ==
  LET r1 == [r EXCEPT !.tasks = [t \in TaskIds |->
                         IF OnInbound(@[t], u)
                         THEN [@[t] EXCEPT !.idx = 0] ELSE @[t]]]
  IN [r1 EXCEPT !.viewerAudioConnections[u] =
                   [NoAudioPc EXCEPT !.alloc = TRUE],
                !.tasks[tid] =
                   [Idle EXCEPT !.kind = "handleViewerAudioOffer",
                                !.pos = "setRemoteDescription",
                                !.user = u, !.idx = 1]]

handleViewerAudioOfferResume(r, tid, ok) ==
  LET task == r.tasks[tid]
      u == task.user
  IN IF ~ok THEN EndTask(r, tid)
     ELSE CASE task.pos = "setRemoteDescription" ->
                 [r EXCEPT !.viewerAudioConnections[u].remoteDescription =
                              IF task.idx = 1 THEN TRUE ELSE @,
                           !.tasks[tid].pos = "createAnswer"]
            [] task.pos = "createAnswer" ->
                 [r EXCEPT !.tasks[tid].pos = "setLocalDescription"]
            [] task.pos = "setLocalDescription" ->
                 send(EndTask(r, tid), Frame("viewer_audio_answer", u, "answer"))

stopViewerAudio(r) ==
  LET r1 == [r EXCEPT !.audioStream = FALSE]
      r2 == IF r1.viewerAudioPc THEN closeAudioLink(r1) ELSE r1
  IN IF r2.currentPresenterId # 0
     THEN send(r2, Frame("viewer_audio_stopped", 0, ""))
     ELSE r2

RECURSIVE closeAllViewerAudio(_, _)
closeAllViewerAudio(r, us) ==
  IF us = {} THEN r
  ELSE LET u == Lowest(us)
       IN closeAllViewerAudio(
            IF r.viewerAudioConnections[u].alloc
            THEN closeViewerAudioConnection(r, u) ELSE r,
            us \ {u})

disconnect(r) ==
  LET r1 == stopViewerAudio(stopScreenShare(stopPingInterval(r)))
      r2 == closeAllViewerAudio(closeAllPeers(r1), Users)
      r3 == cleanupAllRemoteStreams(cleanupAllCandidates(r2))
  IN closeSocket(cancelReconnect(r3))

\* ==================================================================
\* The initial state: the constructor, and nothing of the environment alive
Init ==
  /\ wsState = "disconnected"
  /\ reconnectAttempts = 0
  /\ reconnectDelay = BaseReconnectDelay
  /\ reconnectTimeoutId = 0
  /\ shouldReconnect = TRUE
  /\ manualDisconnect = FALSE
  /\ ws = 0
  /\ pingInterval = 0
  /\ wsSock = ClosedSock
  /\ orphanSocks = <<>>
  /\ timerArmed = FALSE
  /\ orphanTimers = 0
  /\ pingActive = FALSE
  /\ orphanPings = 0
  /\ connectTasks = <<>>
  /\ localStream = FALSE
  /\ isScreenSharing = FALSE
  /\ isCameraSharing = FALSE
  /\ myUserId = 0
  /\ presenters = {}
  /\ remoteStreams = {}
  /\ peerConnections = <<>>
  /\ pendingIceCandidates = [u \in Users |-> NoQueue]
  /\ pcs = [p \in PcIds |-> NoPc]
  /\ tasks = [t \in TaskIds |-> Idle]
  /\ viewerAudioConnections = [u \in Users |-> NoAudioPc]
  /\ viewerAudioPc = FALSE
  /\ audioStream = FALSE
  /\ currentPresenterId = 0
  /\ isHost \in BOOLEAN
  /\ audioLink = NoAudioLink
  /\ reqTimers = [u \in Users |-> 0]
  /\ nextCand = 1
  /\ authToken = 0
  /\ remote = NoRemote
  /\ emitted = <<>>
  /\ sent = <<>>

\* ------------------------------------------------ connection supervisor
\* connect() up to await this.fetchIceConfig(); tok is what Auth.getToken()
\* returns now
connectUnchecked(r, tok) ==
  IF Len(r.connectTasks) >= MaxConnectTasks THEN Overflow(r)
  ELSE [r EXCEPT !.connectTasks = Append(@, tok)]

\* connect() as far as its first await, tok being what Auth.getToken()
\* returned
connect(r, tok) ==
  IF tok = 0
  THEN Emit(r, Ev("connect-returned-false", "", 0, 0))
  ELSE IF Len(r.connectTasks) >= MaxConnectTasks THEN Overflow(r)
  ELSE [r EXCEPT !.connectTasks = Append(@, tok)]

ConnectCallOf(T) == \E tok \in T : Commit(connect(Cur, tok))

ConnectCall == ConnectCallOf(Tokens)

\* the page calls connect() once, when it loads
ConnectOnLoad ==
  /\ wsState = "disconnected"
  /\ connectTasks = <<>>
  /\ ConnectCall

\* connect() after fetchIceConfig: the URL carries the token read before
ConnectProceed ==
  /\ connectTasks # <<>>
  /\ Commit(createWebSocketConnection(
              [Cur EXCEPT !.connectTasks = Tail(@)], "connect",
              Head(connectTasks)))

SocketOpen ==
  \E d \in LiveSockets(Cur) :
    /\ SockAt(Cur, d).st = "connecting"
    /\ Commit(onopen(SetSock(Cur, d, [st |-> "open", origin |-> "none"]),
                     SockAt(Cur, d).origin))

\* the connection fails: an error event, then a close event with code 1006
SocketFail ==
  \E d \in LiveSockets(Cur) :
    LET r1 == onerror(SetSock(Cur, d, ClosedSock), SockAt(Cur, d).origin)
    IN Commit(onclose(r1, 1006))

\* the connection is closed by a closing handshake: a close event only
SocketClose ==
  \E d \in LiveSockets(Cur), code \in CloseCodes :
    /\ SockAt(Cur, d).st \in {"open", "closingO"}
    /\ Commit(onclose(SetSock(Cur, d, ClosedSock), code))

\* a pending reconnect timeout fires: the one this.reconnectTimeoutId
\* names, or one whose handle was overwritten
ReconnectTimerFireOf(T) ==
  \E tok \in T :
    \/ /\ timerArmed
       /\ Commit(reconnectTimerCallback([Cur EXCEPT !.timerArmed = FALSE],
                                        tok))
    \/ /\ orphanTimers > 0
       /\ Commit(reconnectTimerCallback([Cur EXCEPT !.orphanTimers = @ - 1],
                                        tok))

ReconnectTimerFire == ReconnectTimerFireOf(Tokens)

\* the auth collaborator: the credential is renewed, or dropped (0)
AuthRefresh ==
  \E tok \in Tokens \ {authToken} : Commit([Cur EXCEPT !.authToken = tok])

\* connect() on page load and the reconnect timer, with the credential the
\* auth collaborator holds at that moment
ConnectAuth ==
  /\ wsState = "disconnected"
  /\ connectTasks = <<>>
  /\ ConnectCallOf({authToken})

ReconnectTimerFireAuth == ReconnectTimerFireOf({authToken})

PingTick ==
  /\ pingActive \/ orphanPings > 0
  /\ Commit(pingTick(Cur))

\* disconnect(), up to its return
Disconnect ==
  Commit(gc(Emit(disconnect(Cur), Ev("disconnect-returned", "", 0, 0))))

NextConn ==
  \/ ConnectCall
  \/ ConnectProceed
  \/ SocketOpen
  \/ SocketFail
  \/ SocketClose
  \/ ReconnectTimerFire
  \/ PingTick
  \/ Disconnect

SpecConn == Init /\ [][NextConn]_vars

\* the supervisor next to an auth collaborator whose credential changes
NextAuth ==
  \/ AuthRefresh
  \/ ConnectAuth
  \/ ConnectProceed
  \/ SocketOpen
  \/ SocketFail
  \/ SocketClose
  \/ ReconnectTimerFireAuth

SpecAuth == Init /\ [][NextAuth]_vars

\* ------------------------------------------------------ signaling messages
\* ws.onmessage runs handleMessage for a frame of an open WebSocket
CanReceive ==
  \E d \in LiveSockets(Cur) : SockAt(Cur, d).st \in {"open", "closingO"}

\* handleMessage(data): the frame that is dispatched
handleMessage(r, type, from) == Emit(r, Ev("handleMessage", type, from, 0))

\* handleMessage("user_joined")
RecvUserJoinedFrom(S) ==
  \E u \in S :
    /\ CanReceive
    /\ FreeTasks(Cur) # {}
    /\ LET tid == Lowest(FreeTasks(Cur))
           r1 == getOrCreate(handleMessage(Cur, "user_joined", u), u)
       IN Commit(gc(IF r1.isScreenSharing \/ r1.isCameraSharing
                    THEN createOfferForUser(
                           r1, tid, [Idle EXCEPT !.outer = "user_joined"], u)
                    ELSE r1))

RecvUserJoined == RecvUserJoinedFrom(Peers)

\* handleMessage("user_left")
RecvUserLeftFrom(S) ==
  \E u \in S :
    /\ CanReceive
    /\ LET r1 == closePeerConnection(handleMessage(Cur, "user_left", u), u)
       IN Commit(gc(IF u \in r1.presenters
                    THEN [r1 EXCEPT !.presenters = @ \ {u},
                                    !.remoteStreams = @ \ {u}]
                    ELSE r1))

RecvUserLeft == RecvUserLeftFrom(Peers)

\* the same handlers in a room where every user joins and leaves
RecvUserJoinedAny == RecvUserJoinedFrom(Users)
RecvUserLeftAny == RecvUserLeftFrom(Users)

\* the same handlers in a room of the peer and the users next to it
RecvMemberJoined == RecvUserJoinedFrom(Members)
RecvMemberLeft == RecvUserLeftFrom(Members)

\* handleMessage("offer")
offer(r, u, tid) ==
  LET r1 == handleMessage(r, "offer", u)
  IN IF ~r1.isScreenSharing THEN handleOffer(r1, u, tid) ELSE r1

RecvOfferFrom(S) ==
  \E u \in S :
    /\ CanReceive
    /\ FreeTasks(Cur) # {}
    /\ Commit(gc(offer(Cur, u, Lowest(FreeTasks(Cur)))))

RecvOffer == RecvOfferFrom(Peers)

\* handleMessage("answer")
RecvAnswerFrom(S) ==
  \E u \in S :
    /\ CanReceive
    /\ FreeTasks(Cur) # {}
    /\ Commit(gc(handleAnswer(handleMessage(Cur, "answer", u), u,
                              Lowest(FreeTasks(Cur)))))

RecvAnswer == RecvAnswerFrom(Peers)
RecvMemberOffer == RecvOfferFrom(Members)
RecvMemberAnswer == RecvAnswerFrom(Members)

\* handleMessage("ice_candidate"): the candidates are numbered in the order
\* of their arrival, up to n of them; 0 is a frame without a candidate
RecvIceCandidateUpTo(n) ==
  \E u \in Peers, c \in {0, nextCand} :
    /\ CanReceive
    /\ FreeTasks(Cur) # {}
    /\ c # 0 => nextCand <= n
    /\ Commit(gc(handleIceCandidate(
                   [handleMessage(Cur, "ice_candidate", u)
                      EXCEPT !.nextCand = IF c = 0 THEN @ ELSE @ + 1],
                   u, c, Lowest(FreeTasks(Cur)))))

RecvIceCandidate == RecvIceCandidateUpTo(MaxCands)

\* the same handler in a run long enough to fill a queue
RecvIceCandidateBurst == RecvIceCandidateUpTo(MaxBurst)

\* whether the operation task is suspended on can fulfil now
PcOpOk(r, task) ==
  LET p == task.pc
  IN CASE task.kind = "handleOffer" /\ task.pos = "createAnswer" ->
            r.pcs[p].signalingState = "have-remote-offer"
       [] task.kind = "handleOffer" /\ task.pos = "setLocalDescription" ->
            CanSetLocalAnswer(r, p)
       [] task.kind = "handleAnswer" -> CanSetRemoteAnswer(r, p)
       [] task.kind = "createOfferForUser"
            /\ task.pos = "setLocalDescription" -> CanSetLocalOffer(r, p)
       [] OTHER -> TRUE

\* the oldest pending operation of a link settles and the handler that
\* awaits it runs up to its next await
PcOpDone ==
  \E tid \in TaskIds, ok \in BOOLEAN :
    LET task == tasks[tid]
        p == task.pc
    IN /\ task.kind \in {"handleOffer", "handleAnswer", "handleIceCandidate",
                         "createOfferForUser"}
       /\ pcs[p].chain # <<>>
       /\ Head(pcs[p].chain) = tid
       /\ ok => PcOpOk(Cur, task)
       /\ LET r0 == [Cur EXCEPT !.pcs[p].chain = Tail(@)]
          IN Commit(gc(
               CASE task.kind = "handleOffer" -> handleOfferResume(r0, tid, ok)
                 [] task.kind = "handleAnswer" ->
                      handleAnswerResume(r0, tid, ok)
                 [] task.kind = "handleIceCandidate" ->
                      handleIceCandidateResume(r0, tid)
                 [] task.kind = "createOfferForUser" ->
                      createOfferResume(r0, tid, ok)))

\* ------------------------------------------------------------ the user
StartScreenShare ==
  /\ FreeTasks(Cur) # {}
  /\ Commit(startShare(Cur, "screen", Lowest(FreeTasks(Cur))))

\* getDisplayMedia / getUserMedia settles
MediaDone ==
  \E tid \in TaskIds, ok \in BOOLEAN :
    /\ tasks[tid].pos = "getMedia"
    /\ Commit(gc(startShareResume(Cur, tid, ok)))

\* --------------------------------------------------- the peer registry
\* createPeerConnection(userId) called on its own; what it returns is
\* reported as the link the registry holds for the user afterwards
EnsurePeer ==
  \E u \in Users :
    LET r1 == createPeerConnection(Cur, u)
    IN Commit(gc(Emit(r1, Ev("createPeerConnection", "returned", u,
                            PcOf(r1, u)))))

\* pc.onconnectionstatechange of a registered link ("connecting" is handled
\* as "connected" is: the callback only)
PcStateChange ==
  \E i \in DOMAIN peerConnections,
     state \in {"connected", "disconnected", "failed"} :
    LET p == peerConnections[i].pc
    IN /\ pcs[p].connectionState # state
       /\ Commit(gc(onconnectionstatechange(Cur, p, state)))

\* pc.ontrack of a registered link that has a remote description
PcTrack ==
  \E i \in DOMAIN peerConnections :
    LET p == peerConnections[i].pc
    IN /\ pcs[p].remoteDescription # "none"
       /\ Commit([Cur EXCEPT !.remoteStreams = @ \cup {pcs[p].user}])

\* ------------------------------------------------------- viewer audio
\* the page names the presenter the viewer watches: this.currentPresenterId
\* is a field the class reads and resets but never sets
SetCurrentPresenter ==
  \E u \in Peers :
    /\ currentPresenterId # u
    /\ Commit([Cur EXCEPT !.currentPresenterId = u])

AddAudioTrack ==
  /\ FreeTasks(Cur) # {}
  /\ Commit(addAudioTrack(Cur, Lowest(FreeTasks(Cur))))

\* getUserMedia settles
AudioMediaDone ==
  \E tid \in TaskIds, ok \in BOOLEAN :
    /\ tasks[tid].kind = "addAudioTrack"
    /\ tasks[tid].pos = "getUserMedia"
    /\ Commit(gc(addAudioTrackResume(Cur, tid, ok)))

\* an answer is accepted by a link that has a local offer pending
AudioOpOk(r, task) ==
  task.kind = "handleViewerAudioAnswer"
  => r.audioLink.signalingState = "have-local-offer"

\* the oldest pending operation of the outbound audio link settles
AudioOpDone ==
  \E ok \in BOOLEAN :
    /\ audioLink.chain # <<>>
    /\ LET tid == Head(audioLink.chain)
           task == tasks[tid]
           r0 == [Cur EXCEPT !.audioLink.chain = Tail(@)]
       IN /\ ok => AudioOpOk(Cur, task)
          /\ Commit(IF task.kind = "addAudioTrack"
                    THEN addAudioTrackResume(r0, tid, ok)
                    ELSE handleViewerAudioAnswerResume(r0, tid, ok))

\* handleMessage("viewer_audio_answer")
RecvViewerAudioAnswer ==
  /\ CanReceive
  /\ FreeTasks(Cur) # {}
  /\ Commit(handleViewerAudioAnswer(
              handleMessage(Cur, "viewer_audio_answer", 0),
              Lowest(FreeTasks(Cur))))

\* stopViewerAudio(), up to its return
StopViewerAudio ==
  Commit(Emit(stopViewerAudio(Cur), Ev("stopViewerAudio-returned", "", 0, 0)))

\* handleMessage("viewer_audio_offer")
RecvViewerAudioOffer ==
  \E u \in Peers :
    /\ CanReceive
    /\ FreeTasks(Cur) # {}
    /\ LET r1 == handleMessage(Cur, "viewer_audio_offer", u)
       IN Commit(IF isHost
                 THEN handleViewerAudioOffer(r1, u, Lowest(FreeTasks(Cur)))
                 ELSE r1)

\* an operation of an inbound audio link settles
InboundOpDone ==
  \E tid \in TaskIds, ok \in BOOLEAN :
    /\ tasks[tid].kind = "handleViewerAudioOffer"
    /\ Commit(handleViewerAudioOfferResume(Cur, tid, ok))

\* handleMessage("viewer_audio_stopped")
RecvViewerAudioStopped ==
  \E u \in Peers :
    /\ CanReceive
    /\ LET r1 == handleMessage(Cur, "viewer_audio_stopped", u)
       IN Commit(IF isHost THEN closeViewerAudioConnection(r1, u) ELSE r1)

\* pc.onconnectionstatechange of an inbound audio link: a console line
AudioPcStateChange ==
  \E u \in Users, state \in {"connected", "disconnected", "failed"} :
    /\ viewerAudioConnections[u].alloc
    /\ viewerAudioConnections[u].connectionState # state
    /\ Commit(Log([Cur EXCEPT
                     !.viewerAudioConnections[u].connectionState = state],
                  "Viewer audio connection state", u))

\* ---------------------------------------------------- the presenter table
\* room_state: a peer connection for every participant but this.myUserId,
\* in the order of data.participants (taken ascending)
RECURSIVE createPeers(_, _)
createPeers(r, us) ==
  IF us = {} THEN r
  ELSE LET u == Lowest(us)
       IN createPeers(IF u # r.myUserId THEN getOrCreate(r, u) ELSE r,
                      us \ {u})

\* room_state: request_offer to every key of this.presenters but
\* this.myUserId (Object.keys lists integer keys ascending)
RECURSIVE requestOffers(_, _)
requestOffers(r, us) ==
  IF us = {} THEN r
  ELSE LET u == Lowest(us)
       IN requestOffers(IF u # r.myUserId
                        THEN send(r, Frame("request_offer", u, ""))
                        ELSE r,
                        us \ {u})

room_stateNoRequests(r, participants, me, hasTable, table) ==
  LET r1 == [r EXCEPT !.myUserId = me,
                      !.presenters = IF hasTable THEN table ELSE @]
  IN createPeers(r1, participants)

\* handleMessage("room_state"): me is the participant whose username is the
\* room name (0: none); table is data.presenters when hasTable, and may
\* name any user of the room
room_state(r, participants, me, hasTable, table) ==
  LET r1 == [r EXCEPT !.myUserId = me,
                      !.presenters = IF hasTable THEN table ELSE @]
      r2 == createPeers(r1, participants)
  IN requestOffers(r2, r2.presenters)

RecvRoomState ==
  \E participants \in SUBSET Peers, hasTable \in BOOLEAN,
     table \in SUBSET Users :
    \E me \in {0} \cup participants :
      /\ CanReceive
      /\ hasTable \/ table = {}
      /\ Commit(gc(room_state(handleMessage(Cur, "room_state", 0),
                              participants, me, hasTable, table)))

\* handleMessage("screen_share_started")
screen_share_started(r, u, hasTable, table) ==
  LET r1 == [r EXCEPT !.presenters =
                        IF hasTable THEN table ELSE @ \cup {u}]
      r2 == getOrCreate(r1, u)
  IN IF u # r2.myUserId
     THEN send(r2, Frame("request_offer", u, ""))
     ELSE r2

\* T: the ids data.presenters may name
RecvScreenShareStartedIn(T) ==
  \E u \in Peers, hasTable \in BOOLEAN, table \in SUBSET T :
    /\ CanReceive
    /\ IF hasTable THEN u \in table ELSE table = {}
    /\ Commit(gc(screen_share_started(
                   handleMessage(Cur, "screen_share_started", u),
                   u, hasTable, table)))

RecvScreenShareStarted == RecvScreenShareStartedIn(Users)
RecvPeerShareStarted == RecvScreenShareStartedIn(Peers)

\* handleMessage("screen_share_stopped")
screen_share_stopped(r, u, hasTable, table) ==
  [r EXCEPT !.presenters = IF hasTable THEN table ELSE @ \ {u},
            !.remoteStreams = @ \ {u},
            !.currentPresenterId = IF @ = u THEN 0 ELSE @]

RecvScreenShareStopped ==
  \E u \in Peers, hasTable \in BOOLEAN, table \in SUBSET Users :
    /\ CanReceive
    /\ IF hasTable THEN u \notin table ELSE table = {}
    /\ Commit(gc(screen_share_stopped(
                   handleMessage(Cur, "screen_share_stopped", u),
                   u, hasTable, table)))

\* handleMessage("request_offer")
request_offer(r, u, tid) ==
  LET r1 == handleMessage(r, "request_offer", u)
  IN IF r1.isScreenSharing \/ r1.isCameraSharing
     THEN createOfferForUser(r1, tid,
                             [Idle EXCEPT !.outer = "request_offer",
                                          !.user = u], u)
     ELSE requestOfferBack(r1, u)

RecvRequestOffer ==
  \E u \in Peers :
    /\ CanReceive
    /\ FreeTasks(Cur) # {}
    /\ Commit(gc(request_offer(Cur, u, Lowest(FreeTasks(Cur)))))

\* the 100 ms timeout of handleMessage("request_offer") fires
ReqTimerFire ==
  \E u \in Users :
    /\ reqTimers[u] > 0
    /\ Commit(send([Cur EXCEPT !.reqTimers[u] = @ - 1],
                   Frame("request_offer", u, "")))

StartCameraShare ==
  /\ FreeTasks(Cur) # {}
  /\ Commit(startShare(Cur, "camera", Lowest(FreeTasks(Cur))))

StopScreenShare == Commit(gc(stopScreenShare(Cur)))

StopCameraShare == Commit(gc(stopCameraShare(Cur)))

NextPeer ==
  \/ ConnectCall
  \/ ConnectProceed
  \/ SocketOpen
  \/ RecvUserJoined
  \/ RecvUserLeft
  \/ RecvOffer
  \/ RecvAnswer
  \/ RecvIceCandidate
  \/ PcOpDone
  \/ StartScreenShare
  \/ MediaDone

SpecPeer == Init /\ [][NextPeer]_vars

\* offers and answers between a sharing participant and its peers
NextOffer ==
  \/ ConnectCall
  \/ ConnectProceed
  \/ SocketOpen
  \/ StartScreenShare
  \/ StartCameraShare
  \/ MediaDone
  \/ RecvUserJoined
  \/ RecvRequestOffer
  \/ RecvOffer
  \/ RecvAnswer
  \/ PcOpDone

SpecOffer == Init /\ [][NextOffer]_vars

\* the registry of a room whose users join, leave and lose their links
NextRegistry ==
  \/ ConnectOnLoad
  \/ ConnectProceed
  \/ SocketOpen
  \/ EnsurePeer
  \/ PcStateChange
  \/ RecvUserJoinedAny
  \/ RecvUserLeftAny

SpecRegistry == Init /\ [][NextRegistry]_vars

\* users that leave while a peer negotiates, queues candidates and streams
NextClose ==
  \/ ConnectOnLoad
  \/ ConnectProceed
  \/ SocketOpen
  \/ RecvMemberJoined
  \/ RecvMemberLeft
  \/ RecvOffer
  \/ RecvIceCandidate
  \/ PcOpDone
  \/ PcTrack

SpecClose == Init /\ [][NextClose]_vars

\* negotiations with two room members, any of which may be rejected
NextFail ==
  \/ ConnectOnLoad
  \/ ConnectProceed
  \/ SocketOpen
  \/ RecvPeerShareStarted
  \/ RecvMemberOffer
  \/ RecvMemberAnswer
  \/ StartScreenShare
  \/ MediaDone
  \/ PcOpDone

SpecFail == Init /\ [][NextFail]_vars

\* a viewer that speaks to a presenter, and the host that listens
NextSpeak ==
  \/ ConnectOnLoad
  \/ ConnectProceed
  \/ SocketOpen
  \/ SetCurrentPresenter
  \/ AddAudioTrack
  \/ AudioMediaDone
  \/ AudioOpDone
  \/ RecvViewerAudioAnswer
  \/ StopViewerAudio
  \/ RecvScreenShareStopped
  \/ RecvViewerAudioOffer
  \/ InboundOpDone
  \/ RecvViewerAudioStopped

SpecSpeak == Init /\ [][NextSpeak]_vars

\* the inbound audio link of a viewer next to its main link
NextListen ==
  \/ ConnectOnLoad
  \/ ConnectProceed
  \/ SocketOpen
  \/ RecvUserJoined
  \/ RecvUserLeft
  \/ RecvIceCandidate
  \/ RecvViewerAudioOffer
  \/ InboundOpDone
  \/ RecvViewerAudioStopped
  \/ AudioPcStateChange

SpecListen == Init /\ [][NextListen]_vars

\* the candidate queue of a peer that sends a long run of candidates before
\* any offer or answer
NextQueue ==
  \/ ConnectCall
  \/ ConnectProceed
  \/ SocketOpen
  \/ RecvUserJoined
  \/ RecvUserLeft
  \/ RecvIceCandidateBurst

SpecQueue == Init /\ [][NextQueue]_vars

\* the presenter table: peers that start and stop presenting around a
\* local participant that may present itself
NextTable ==
  \/ ConnectOnLoad
  \/ ConnectProceed
  \/ SocketOpen
  \/ RecvRoomState
  \/ RecvScreenShareStarted
  \/ RecvScreenShareStopped
  \/ RecvUserLeft
  \/ StartScreenShare
  \/ StartCameraShare
  \/ MediaDone
  \/ PcOpDone

SpecTable == Init /\ [][NextTable]_vars

\* ------------------------------------------------- a second presenter
\* the remote presenter starts to share; its screen_share_started arrives.
\* Its table names the local participant if that one presents already
RemoteShareStarted ==
  \E screen \in BOOLEAN :
    /\ CanReceive
    /\ ~remote.on
    /\ Commit(gc(screen_share_started(
                   handleMessage(
                     [Cur EXCEPT !.remote =
                        [NoRemote EXCEPT
                           !.on = TRUE, !.screen = screen,
                           !.tracksUs = isScreenSharing \/ isCameraSharing]],
                     "screen_share_started", RemoteId),
                   RemoteId, FALSE, {})))

\* a request_offer of the remote presenter arrives
RemoteRequestOfferArrives ==
  /\ remote.reqOut
  /\ CanReceive
  /\ FreeTasks(Cur) # {}
  /\ Commit(gc(request_offer([Cur EXCEPT !.remote.reqOut = FALSE], RemoteId,
                             Lowest(FreeTasks(Cur)))))

\* an offer of the remote presenter arrives
RemoteOfferArrives ==
  /\ remote.offerOut
  /\ CanReceive
  /\ FreeTasks(Cur) # {}
  /\ Commit(gc(offer([Cur EXCEPT !.remote.offerOut = FALSE], RemoteId,
                     Lowest(FreeTasks(Cur)))))

\* handleMessage("screen_share_started") at the remote presenter: it tracks
\* the local participant and asks it for an offer
RemoteRecvShareStarted ==
  /\ remote.startedIn
  /\ Commit([Cur EXCEPT !.remote.startedIn = FALSE,
                        !.remote.tracksUs = TRUE,
                        !.remote.reqOut = TRUE])

\* handleMessage("request_offer") at the remote presenter, which shares: it
\* offers, and asks back when it tracks the sender and lacks its stream
RemoteRecvRequestOffer ==
  /\ remote.reqIn
  /\ Commit([Cur EXCEPT !.remote.reqIn = FALSE,
                        !.remote.offerOut = TRUE,
                        !.remote.timer =
                          @ \/ (remote.tracksUs /\ ~remote.holdsUs)])

\* handleMessage("offer") at the remote presenter: dropped while it shares
\* its screen, else answered, and the stream of the offer is held
RemoteRecvOffer ==
  /\ remote.offerIn
  /\ Commit([Cur EXCEPT !.remote.offerIn = FALSE,
                        !.remote.holdsUs = @ \/ ~remote.screen])

\* the 100 ms timeout of the remote presenter fires
RemoteTimerFire ==
  /\ remote.timer
  /\ Commit([Cur EXCEPT !.remote.timer = FALSE, !.remote.reqOut = TRUE])

\* what starts an exchange: the users and the page
External ==
  \/ ConnectOnLoad
  \/ StartScreenShare
  \/ MediaDone
  \/ RemoteShareStarted

NextEcho ==
  \/ ConnectOnLoad
  \/ ConnectProceed
  \/ SocketOpen
  \/ StartScreenShare
  \/ MediaDone
  \/ PcOpDone
  \/ ReqTimerFire
  \/ RemoteShareStarted
  \/ RemoteRequestOfferArrives
  \/ RemoteOfferArrives
  \/ RemoteRecvShareStarted
  \/ RemoteRecvRequestOffer
  \/ RemoteRecvOffer
  \/ RemoteTimerFire

\* frames in flight arrive, pending timeouts fire, link operations settle
\* and the media prompt is answered
SpecEcho ==
  /\ Init
  /\ [][NextEcho]_vars
  /\ WF_vars(MediaDone)
  /\ WF_vars(PcOpDone)
  /\ WF_vars(ReqTimerFire)
  /\ WF_vars(RemoteRequestOfferArrives)
  /\ WF_vars(RemoteOfferArrives)
  /\ WF_vars(RemoteRecvShareStarted)
  /\ WF_vars(RemoteRecvRequestOffer)
  /\ WF_vars(RemoteRecvOffer)
  /\ WF_vars(RemoteTimerFire)

\* two presenters: a peer presents while the local participant presents
NextMutual ==
  \/ ConnectOnLoad
  \/ ConnectProceed
  \/ SocketOpen
  \/ RecvScreenShareStarted
  \/ RecvRequestOffer
  \/ ReqTimerFire
  \/ RecvOffer
  \/ RecvAnswer
  \/ StartScreenShare
  \/ MediaDone
  \/ PcOpDone

SpecMutual == Init /\ [][NextMutual]_vars

\* joining a room: the snapshot, then the peers that join and ask for offers
NextJoin ==
  \/ ConnectOnLoad
  \/ ConnectProceed
  \/ SocketOpen
  \/ RecvRoomState
  \/ RecvUserJoined
  \/ RecvRequestOffer
  \/ ReqTimerFire
  \/ StartScreenShare
  \/ MediaDone
  \/ PcOpDone

SpecJoin == Init /\ [][NextJoin]_vars


\* ==================================================================
\* Properties of the connection supervisor
Events(name) == {i \in DOMAIN emitted : emitted[i].ev = name}
Logged(msg) == \E i \in Events("log") : emitted[i].st = msg
Notified(state) ==
  \E i \in Events("onConnectionStateChange") :
    emitted[i].st = state /\ emitted[i].a = 0
TimersPending == (IF timerArmed THEN 1 ELSE 0) + orphanTimers
ExpectedDelay ==
  <<1000, 2000, 4000, 8000, 16000, 30000, 30000, 30000, 30000, 30000>>

\* C1: the delay given to setTimeout for the N-th consecutive reconnect
\* attempt, N in 1..10, is min(1000 * 2^(N-1), 30000): 1000, 2000, 4000,
\* 8000, 16000 and then 30000 (N is the attempt counter after its increment)
C1_BackoffDelay ==
  /\ \A i \in Events("setTimeout") :
       /\ emitted[i].a \in 1..maxReconnectAttempts
       /\ emitted[i].d = ExpectedDelay[emitted[i].a]
  /\ \A i \in Events("onReconnecting") :
       emitted[i].d = ExpectedDelay[emitted[i].a]
C1_Witness ==
  \E i \in Events("setTimeout") : emitted[i].a = 10 /\ emitted[i].d = 30000

\* C2: once maxReconnectAttempts attempts have failed the state becomes
\* failed, onReconnectFailed is invoked, no reconnect timer is pending, and
\* while the state is failed nothing but a new connect() changes that
C2_FailedIsFinal ==
  [][/\ (wsState' = "failed" /\ wsState # "failed")
          => /\ reconnectAttempts' = maxReconnectAttempts
             /\ Events("onReconnectFailed")' # {}
             /\ TimersPending' = 0
     /\ (wsState = "failed" /\ connectTasks' = connectTasks)
          => /\ wsState' = "failed"
             /\ TimersPending' = 0
             /\ Events("setTimeout")' = {}]_vars

\* C3: an open of the transport leaves the attempt counter 0 and the delay
\* 1000; onReconnected is invoked exactly once by that open when the counter
\* was above 0 before it, and not at all when the counter was 0
C3_OpenResets ==
  [][Logged("WebSocket connected")'
       => /\ reconnectAttempts' = 0
          /\ reconnectDelay' = BaseReconnectDelay
          /\ Cardinality(Events("onReconnected")') =
               IF reconnectAttempts > 0 THEN 1 ELSE 0]_vars
C3_Witness ==
  /\ Logged("WebSocket connected")
  /\ Events("onReconnected") # {}
  /\ reconnectAttempts = 0

\* close codes that end the session: normal closure, kicked, room ended
TerminalCode(code) == code = 1000 \/ code >= 4000
ClosedWith(code) ==
  \E i \in Events("log") :
    emitted[i].st = "WebSocket closed" /\ emitted[i].a = code

\* C4: a close with a non-terminal code while connected, with no manual
\* disconnect and auto-reconnect enabled, leaves the state reconnecting, the
\* attempt counter 1 and schedules exactly one timer, of 1000 ms; an open of
\* the transport leaves the state connected
C4_UncleanCloseRetries ==
  [][/\ \A code \in CloseCodes :
          ( /\ ClosedWith(code)' /\ ~TerminalCode(code)
            /\ wsState = "connected" /\ ~manualDisconnect /\ shouldReconnect )
          => /\ wsState' = "reconnecting"
             /\ reconnectAttempts' = 1
             /\ Cardinality(Events("setTimeout")') = 1
             /\ \A i \in Events("setTimeout")' : emitted'[i].d = 1000
     /\ Logged("WebSocket connected")' => wsState' = "connected"]_vars
C4_Witness ==
  /\ ClosedWith(1001)
  /\ wsState = "reconnecting"
  /\ reconnectAttempts = 1
  /\ timerArmed
  /\ Events("connect-rejected") = {}

\* C5: a close with code 1000 or a code of 4000 and above leaves the state
\* disconnected, schedules no reconnect timer and leaves the attempt counter
\* as it was, whatever manualDisconnect and shouldReconnect are; a close
\* with any other code leaves the state reconnecting or failed only when
\* manualDisconnect is false and shouldReconnect is true
C5_CloseCodes ==
  [][\A code \in CloseCodes :
       ClosedWith(code)'
       => IF TerminalCode(code)
          THEN /\ wsState' = "disconnected"
               /\ Events("setTimeout")' = {}
               /\ TimersPending' = TimersPending
               /\ reconnectAttempts' = reconnectAttempts
          ELSE wsState' # "disconnected"
                 => ~manualDisconnect /\ shouldReconnect]_vars
C5_Witness ==
  /\ ClosedWith(4002)
  /\ wsState = "disconnected"
  /\ Notified("disconnected")
  /\ ~manualDisconnect

\* C6: once disconnect() has returned no reconnect timer is pending and the
\* state is never reconnecting (disconnect() alone sets manualDisconnect,
\* and nothing clears it)
C6_DisconnectStopsRetries ==
  manualDisconnect => TimersPending = 0 /\ wsState # "reconnecting"

\* C7: a reconnect timer that fires with no credential starts another
\* attempt at once: the counter is incremented and a new timer scheduled, or
\* the state is failed once the maximum is reached; it never leaves the
\* state reconnecting with no timer pending
C7_NoTokenRetries ==
  [][Logged("No token for reconnect")'
       => /\ \/ /\ reconnectAttempts' = reconnectAttempts + 1
                /\ Events("setTimeout")' # {}
             \/ /\ reconnectAttempts >= maxReconnectAttempts
                /\ wsState' = "failed"
          /\ wsState' = "reconnecting" => TimersPending' > 0]_vars

\* C8: every change of wsState, to connecting, connected, reconnecting,
\* disconnected or failed, comes with a call of onConnectionStateChange
\* with the new state
C8_EveryChangeNotified ==
  [][wsState' # wsState
       => \E i \in DOMAIN emitted' :
            /\ emitted'[i].ev = "onConnectionStateChange"
            /\ emitted'[i].st = wsState']_vars

\* ==================================================================
\* Properties of the ICE candidate queue
Draining(p) ==
  \E t \in TaskIds :
    /\ tasks[t].kind = "handleOffer"
    /\ tasks[t].pc = p
    /\ tasks[t].pos \in {"setRemoteDescription", "drain"}
TimesApplied(p, c) ==
  Cardinality({i \in DOMAIN pcs[p].applied : pcs[p].applied[i] = c})

\* C9: once the remote description of a peer's link is set, by handleOffer
\* or by handleAnswer, and no drain of its queue is under way, every
\* candidate that was queued for the link has been handed to addIceCandidate
\* exactly once and the peer's queue is empty
C9_QueueDrained ==
  \A p \in PcIds :
    (pcs[p].alloc /\ pcs[p].remoteDescription # "none" /\ ~Draining(p))
    => /\ pendingIceCandidates[pcs[p].user].q = <<>>
       /\ \A c \in pcs[p].queued : TimesApplied(p, c) = 1

\* C10: the candidates of a peer are handed to addIceCandidate in the order
\* of their arrival, also when one arrives while the queue is being drained
C10_ArrivalOrder ==
  \A p \in PcIds :
    \A i, j \in DOMAIN pcs[p].applied :
      i < j => pcs[p].applied[i] <= pcs[p].applied[j]

\* the frame handleMessage dispatched in the last step
Received(type, from) ==
  \E i \in Events("handleMessage") :
    emitted[i].st = type /\ emitted[i].a = from

\* C11: a link of the peer registry that has been handed a candidate has
\* its remote description set
C11_AppliedNeedsRemote ==
  \A p \in PcIds :
    pcs[p].applied # <<>> => pcs[p].remoteDescription # "none"
C11_Witness ==
  \E p \in PcIds, t \in TaskIds :
    /\ pcs[p].applied # <<>>
    /\ tasks[t].kind = "handleIceCandidate"
    /\ tasks[t].pc = p

\* C13: an answer from a user that has no link, or whose link is not in
\* have-local-offer, changes no link, no queue, no suspended handler and
\* not the registry
C13_StaleAnswerIgnored ==
  [][\A u \in Users :
       ( /\ Received("answer", u)'
         /\ \/ PcOf(Cur, u) = 0
            \/ pcs[PcOf(Cur, u)].signalingState # "have-local-offer" )
       => /\ pcs' = pcs
          /\ peerConnections' = peerConnections
          /\ pendingIceCandidates' = pendingIceCandidates
          /\ tasks' = tasks
          /\ sent' = <<>>]_vars
C13_Witness ==
  /\ Received("answer", 1)
  /\ PcOf(Cur, 1) # 0
  /\ pcs[PcOf(Cur, 1)].signalingState = "have-remote-offer"
  /\ \A t \in TaskIds : tasks[t].kind # "handleAnswer"

\* C12: a queue of pending candidates never holds more than 50 entries; a
\* candidate that arrives for a peer whose queue holds 50 is dropped: the
\* queues, the links, the registry, the suspended handlers and the
\* connection state stay as they were and nothing is sent
C12_QueueCap ==
  [][/\ \A u \in Users :
          Len(pendingIceCandidates'[u].q) <= MaxPendingCandidates
     /\ \A u \in Users :
          ( /\ Received("ice_candidate", u)'
            /\ nextCand' # nextCand
            /\ PcOf(Cur, u) # 0
            /\ pcs[PcOf(Cur, u)].remoteDescription = "none"
            /\ Len(pendingIceCandidates[u].q) = MaxPendingCandidates )
          => /\ pendingIceCandidates' = pendingIceCandidates
             /\ pcs' = pcs
             /\ peerConnections' = peerConnections
             /\ tasks' = tasks
             /\ wsState' = wsState
             /\ sent' = <<>>]_vars
C12_Witness ==
  /\ Received("ice_candidate", 1)
  /\ nextCand = 52
  /\ Len(pendingIceCandidates[1].q) = 50
  /\ pendingIceCandidates[1].q[50] = 50

\* ==================================================================
\* Properties of offers and answers
Sent(type, target) ==
  \E i \in DOMAIN sent : sent[i].type = type /\ sent[i].target = target

\* C14: an offer is sent to a peer only when the signaling state of its
\* link was stable before, so never while an earlier offer to that peer is
\* not answered yet (have-local-offer), whichever handlers create offers
C14_OfferOnlyWhenStable ==
  [][\A u \in Users :
       Sent("offer", u)'
       => /\ PcOf(Cur, u) # 0
          /\ pcs[PcOf(Cur, u)].signalingState = "stable"]_vars

\* C15: every inbound offer, whatever the local sharing state, is passed to
\* handleOffer: in the step that dispatches it a peer connection for the
\* sender exists and handleOffer has begun to apply the remote description
C15_OfferAlwaysHandled ==
  [][\A u \in Users :
       Received("offer", u)'
       => /\ \E i \in DOMAIN peerConnections' : peerConnections'[i].user = u
          /\ \E t \in TaskIds : /\ tasks'[t].kind = "handleOffer"
                                /\ tasks'[t].user = u
                                /\ tasks'[t].pos = "setRemoteDescription"]_vars

\* handleOffer has taken up the offer of u
OfferTakenUp(u) ==
  \E t \in TaskIds : /\ tasks[t].kind = "handleOffer"
                     /\ tasks[t].user = u
                     /\ tasks[t].pos = "setRemoteDescription"

\* handleAnswer has taken up the answer of u
AnswerTakenUp(u) ==
  \E t \in TaskIds : tasks[t].kind = "handleAnswer" /\ tasks[t].user = u

\* C16: when the local participant and a peer both present, the streams are
\* exchanged both ways: the peer's screen_share_started makes the local side
\* request its offer, the peer's offer is taken up to be answered, and the
\* peer's answer to a pending local offer is taken up to be accepted
C16_MutualExchange ==
  [][\A u \in Users :
       /\ ( Received("screen_share_started", u)'
            /\ u # myUserId' /\ wsOpen(Cur) )
          => Sent("request_offer", u)'
       /\ ( Received("offer", u)' /\ u \in presenters
            /\ (isScreenSharing \/ isCameraSharing) )
          => OfferTakenUp(u)'
       /\ ( Received("answer", u)' /\ u \in presenters
            /\ (isScreenSharing \/ isCameraSharing)
            /\ PcOf(Cur, u) # 0
            /\ pcs[PcOf(Cur, u)].signalingState = "have-local-offer" )
          => AnswerTakenUp(u)']_vars

\* createOfferForUser is under way for u
OfferUnderWay(u) ==
  \E t \in TaskIds : tasks[t].kind = "createOfferForUser" /\ tasks[t].user = u

\* C17: a participant that joins a room sends, on its room_state snapshot,
\* a request_offer to every presenter the snapshot leaves in the table and
\* none to itself; a presenter that receives a request_offer starts an offer
\* for the sender unless one is pending on the link, and the offer it sets
\* is sent to that peer
C17_JoinGetsOffer ==
  [][/\ ( Received("room_state", 0)' /\ wsOpen(Cur) )
        => /\ \A u \in presenters' :
                u # myUserId' => Sent("request_offer", u)'
           /\ \A i \in DOMAIN sent' :
                sent'[i].type = "request_offer"
                => /\ sent'[i].target \in presenters'
                   /\ sent'[i].target # myUserId'
     /\ \A u \in Users :
          ( Received("request_offer", u)'
            /\ (isScreenSharing \/ isCameraSharing) /\ localStream )
          => \/ OfferUnderWay(u)'
             \/ /\ PcOf(Cur, u) # 0
                /\ pcs[PcOf(Cur, u)].signalingState # "stable"
     /\ \A p \in PcIds :
          ( pcs[p].localDescription # "offer"
            /\ pcs'[p].localDescription = "offer" /\ wsOpen(Cur) )
          => \E i \in DOMAIN peerConnections :
               /\ peerConnections[i].pc = p
               /\ Sent("offer", peerConnections[i].user)']_vars

C17_Witness ==
  /\ Received("room_state", 0)
  /\ myUserId = 1
  /\ presenters = {2}
  /\ sent = <<Frame("request_offer", 2, "")>>

\* ==================================================================
\* Properties of the presenter table
Presenting == isScreenSharing \/ isCameraSharing

\* C18: canShare() is true whenever the local participant presents a screen
\* or a camera, whatever the size of the presenter table; otherwise it is
\* true exactly when the table holds fewer than 2 entries, and false when
\* it holds 2 or more
C18_CanShare ==
  /\ Presenting => canShare(Cur)
  /\ ~Presenting => (canShare(Cur) <=> Cardinality(presenters) < 2)
  /\ (~Presenting /\ Cardinality(presenters) >= 2) => ~canShare(Cur)

C18_Witness ==
  /\ isCameraSharing
  /\ Cardinality(presenters) = 3
  /\ canShare(Cur)

\* startScreenShare / startCameraShare threw the presenter-limit error
Rejected(kind) ==
  \E i \in Events("share-rejected") : emitted[i].st = kind

\* C19: while the presenter table holds maxPresenters entries or more and
\* the local participant presents nothing, no call of startScreenShare or
\* startCameraShare reaches the media request; a call is rejected only then,
\* and the rejection leaves the sharing flags, the local stream and the peer
\* registry as they were and sends nothing
C19_FullTableRejects ==
  [][/\ ( Cardinality(presenters) >= maxPresenters /\ ~Presenting )
        => \A t \in TaskIds :
             tasks'[t].pos = "getMedia" => tasks[t].pos = "getMedia"
     /\ \A kind \in {"screen", "camera"} :
          Rejected(kind)'
          => /\ Cardinality(presenters) >= maxPresenters /\ ~Presenting
             /\ isScreenSharing' = isScreenSharing
             /\ isCameraSharing' = isCameraSharing
             /\ localStream' = localStream
             /\ peerConnections' = peerConnections
             /\ pcs' = pcs
             /\ presenters' = presenters
             /\ tasks' = tasks
             /\ sent' = <<>>]_vars

C19_Witness ==
  /\ Rejected("camera")
  /\ Cardinality(presenters) = maxPresenters
  /\ ~Presenting
  /\ peerConnections # <<>>

\* C20: in every reachable state the presenter table holds at most
\* maxPresenters (2) entries, whatever room_state, screen_share_started,
\* screen_share_stopped and user_left messages arrive
C20_TableWithinCap == Cardinality(presenters) <= maxPresenters

\* ==================================================================
\* Properties of the peer registry
\* createPeerConnection(u) was called on its own and returned link p
Ensured(u, p) ==
  \E i \in Events("createPeerConnection") :
    emitted[i].a = u /\ emitted[i].d = p

\* the registry holds a link for u that is neither failed nor closed
Usable(u) ==
  /\ PcOf(Cur, u) # 0
  /\ pcs[PcOf(Cur, u)].connectionState \notin {"failed", "closed"}

\* C21: the registry holds at most one link per participant id, and
\* createPeerConnection for an id whose link is neither failed nor closed
\* returns that link and creates nothing, however often it is called
C21_EnsureIdempotent ==
  [][/\ \A i, j \in DOMAIN peerConnections' :
          peerConnections'[i].user = peerConnections'[j].user => i = j
     /\ \A u \in Users, p \in 0..MaxPc :
          ( Ensured(u, p)' /\ Usable(u) )
          => /\ p = PcOf(Cur, u)
             /\ peerConnections' = peerConnections
             /\ pcs' = pcs
     /\ \A u \in Users :
          Usable(u)
          => /\ createPeerConnection(Cur, u) = Cur
             /\ createPeerConnection(createPeerConnection(Cur, u), u) = Cur
    ]_vars

C21_Witness ==
  /\ Ensured(1, PcOf(Cur, 1))
  /\ Usable(1)
  /\ pcs[PcOf(Cur, 1)].connectionState = "connected"
  /\ Len(peerConnections) = 3

\* the link the registry holds for u (0: none)
Link(u) == PcOf(Cur, u)

\* C22: closePeerConnection(u), as every user_left for u runs it, leaves no
\* link in the registry, no pending candidate queue and no remote stream
\* for u, and leaves the links, queues and streams of every other
\* participant as they were
C22_ClosePeerIsLocal ==
  [][\A u \in Users :
       Received("user_left", u)'
       => /\ Link(u)' = 0
          /\ pendingIceCandidates'[u] = NoQueue
          /\ u \notin remoteStreams'
          /\ \A v \in Users \ {u} :
               /\ Link(v)' = Link(v)
               /\ Link(v) # 0 => pcs'[Link(v)] = pcs[Link(v)]
               /\ pendingIceCandidates'[v] = pendingIceCandidates[v]
               /\ v \in remoteStreams' <=> v \in remoteStreams]_vars

C22_Witness ==
  /\ Received("user_left", 2)
  /\ Link(1) # 0
  /\ pendingIceCandidates[1].q # <<>>
  /\ 1 \in remoteStreams

\* ==================================================================
\* Properties of disconnect()
Disconnected == Events("disconnect-returned") # {}

\* active heartbeat intervals
PingsActive == (IF pingActive THEN 1 ELSE 0) + orphanPings

\* C23: when disconnect() returns, whatever the state it was called in, no
\* link is registered, no candidate queue, remote stream, viewer-audio link
\* (inbound or outbound) or local stream is held, both sharing flags are
\* false, and neither a heartbeat interval nor a reconnect timer is pending
C23_DisconnectReleasesAll ==
  Disconnected
  => /\ peerConnections = <<>>
     /\ \A u \in Users : pendingIceCandidates[u] = NoQueue
     /\ remoteStreams = {}
     /\ \A u \in Users : ~viewerAudioConnections[u].alloc
     /\ ~viewerAudioPc
     /\ ~localStream
     /\ ~isScreenSharing /\ ~isCameraSharing
     /\ PingsActive = 0
     /\ TimersPending = 0

\* ==================================================================
\* Properties of the viewer-audio side channel
StoppedSpeaking == Events("stopViewerAudio-returned") # {}

\* C24: when a viewer that speaks to a presenter stops, its outbound audio
\* link is closed and a viewer_audio_stopped frame is sent; when that frame
\* arrives, the presenter holds no inbound link for the viewer any more
C24_StopSpeaking ==
  [][/\ ( StoppedSpeaking' /\ viewerAudioPc )
        => /\ ~viewerAudioPc'
           /\ audioLink' = NoAudioLink
           /\ wsOpen(Cur) => Sent("viewer_audio_stopped", 0)'
     /\ \A u \in Users :
          Received("viewer_audio_stopped", u)'
          => ~viewerAudioConnections'[u].alloc]_vars

\* C25: on the presenter side the inbound viewer-audio link of viewer V is
\* destroyed when V departs (user_left of V) and when that link fails:
\* after either, this.viewerAudioConnections has no entry for V.
C25_InboundLinkReleased ==
  [][\A u \in Users :
       /\ Received("user_left", u)' => ~viewerAudioConnections'[u].alloc
       /\ viewerAudioConnections'[u].alloc
          => viewerAudioConnections'[u].connectionState # "failed"]_vars

\* C26: the viewer-audio side channel is independent of the main negotiation
\* engine: handling viewer_audio_offer, viewer_audio_answer or
\* viewer_audio_stopped, stopViewerAudio, and the closing of an inbound audio
\* link change no main peer record, no signaling phase of one and no pending
\* candidate queue.
C26_AudioLeavesMainAlone ==
  [][( \/ \E u \in Users : \/ Received("viewer_audio_offer", u)'
                           \/ Received("viewer_audio_answer", u)'
                           \/ Received("viewer_audio_stopped", u)'
       \/ StoppedSpeaking' )
     => /\ peerConnections' = peerConnections
        /\ pcs' = pcs
        /\ pendingIceCandidates' = pendingIceCandidates]_vars

\* C27: handleIceCandidate treats a matching viewer-audio link as it treats
\* the main link: a candidate that arrives for the inbound audio link of a
\* viewer before that link's remote description is set is kept (queued under
\* the viewer's id, to be applied once the description is set), not lost.
C27_AudioCandidateKept ==
  [][\A u \in Users :
       ( /\ Received("ice_candidate", u)'
         /\ nextCand' = nextCand + 1
         /\ viewerAudioConnections[u].alloc
         /\ ~viewerAudioConnections[u].remoteDescription )
       => \/ \E i \in DOMAIN pendingIceCandidates'[u].q :
               pendingIceCandidates'[u].q[i] = nextCand
          \/ \E i \in DOMAIN viewerAudioConnections'[u].applied :
               viewerAudioConnections'[u].applied[i] = nextCand]_vars

(***************************************************************************)
(* Properties of failing negotiations                                      *)
(***************************************************************************)
\* the last step reported a rejected description in the negotiation with u
NegotiationFailed(u) ==
  \/ \E i \in Events("log") :
       /\ emitted[i].st \in {"Error handling offer from",
                             "Error creating offer for"}
       /\ emitted[i].a = u
  \/ \E i \in Events("unhandledrejection") : emitted[i].a = u

\* what a peer record holds of its negotiation
Phase(p) ==
  [alloc |-> pcs[p].alloc, user |-> pcs[p].user,
   signalingState |-> pcs[p].signalingState,
   remoteDescription |-> pcs[p].remoteDescription,
   localDescription |-> pcs[p].localDescription,
   connectionState |-> pcs[p].connectionState,
   applied |-> pcs[p].applied]

\* C28: a negotiation failure with one peer (a description rejected in
\* handleOffer, handleAnswer or createOfferForUser) leaves that peer in its
\* last good phase and leaves every other peer record, every queue, the
\* presenter table and the connection state unchanged; it neither closes
\* the transport nor tears the session down.
C28_FailureIsLocal ==
  [][\A u \in Users :
       NegotiationFailed(u)'
       => /\ peerConnections' = peerConnections
          /\ \A i \in DOMAIN peerConnections :
               Phase(peerConnections[i].pc)' = Phase(peerConnections[i].pc)
          /\ pendingIceCandidates' = pendingIceCandidates
          /\ remoteStreams' = remoteStreams
          /\ presenters' = presenters
          /\ wsState' = wsState
          /\ ws' = ws
          /\ wsSock' = wsSock
          /\ orphanSocks' = orphanSocks
          /\ isScreenSharing' = isScreenSharing
          /\ localStream' = localStream
          /\ ~Disconnected']_vars

C28_Witness ==
  /\ NegotiationFailed(1)
  /\ Link(1) # 0
  /\ Link(2) # 0
  /\ pcs[Link(1)].signalingState = "have-remote-offer"
  /\ pcs[Link(2)].signalingState = "have-local-offer"
  /\ presenters = {1}

(***************************************************************************)
(* Properties of the credential                                            *)
(***************************************************************************)
\* the transports the last step opened from a reconnect timer, by credential
Reopened(tok) ==
  \E i \in Events("open-transport") :
    emitted[i].st = "timer" /\ emitted[i].a = tok

C30_ConnectWithoutCredential ==
  [][/\ Events("connect-returned-false")' # {}
        => /\ connectTasks' = connectTasks
           /\ Events("open-transport")' = {}
           /\ ws' = ws /\ wsSock' = wsSock /\ orphanSocks' = orphanSocks
           /\ wsState' = wsState
           /\ reconnectAttempts' = reconnectAttempts
           /\ reconnectDelay' = reconnectDelay
           /\ reconnectTimeoutId' = reconnectTimeoutId
           /\ shouldReconnect' = shouldReconnect
           /\ manualDisconnect' = manualDisconnect
           /\ timerArmed' = timerArmed /\ orphanTimers' = orphanTimers
           /\ pingActive' = pingActive /\ orphanPings' = orphanPings
     /\ connectTasks' # connectTasks /\ Len(connectTasks') > Len(connectTasks)
        => connectTasks'[Len(connectTasks')] # 0]_vars

C30_Witness ==
  /\ Events("connect-returned-false") # {}
  /\ wsState = "reconnecting"
  /\ reconnectAttempts = 2
  /\ timerArmed

(***************************************************************************)
(* Properties of the timers                                                *)
(***************************************************************************)
\* C31: at most one reconnect timer is pending at any time, whatever the
\* sequence of transport closes, timer firings, failed attempts and
\* connect() calls: no reconnect is scheduled while another is pending.
C31_SingleReconnectTimer == TimersPending <= 1

\* C32: a heartbeat ping is sent only while the transport is open; every
\* transport close stops the heartbeat interval, so no heartbeat timer is
\* active while the state is disconnected, reconnecting or failed, and at
\* most one heartbeat timer is active at any time.
C32_HeartbeatFollowsTransport ==
  [][/\ (\E i \in DOMAIN sent' : sent'[i].type = "ping") => wsOpen(Cur)
     /\ PingsActive' <= 1
     /\ wsState' \in {"disconnected", "reconnecting", "failed"}
        => PingsActive' = 0]_vars

(***************************************************************************)
(* Properties of two presenters                                            *)
(***************************************************************************)
\* no request_offer is in flight, awaited by a timeout or about to be asked
\* back by a handler that is still running
Quiet ==
  /\ ~remote.reqIn /\ ~remote.reqOut /\ ~remote.timer
  /\ \A u \in Users : reqTimers[u] = 0
  /\ \A t \in TaskIds : tasks[t].outer # "request_offer"

\* C33: the exchange of request_offer messages between two presenters
\* quiesces: unless the users start something anew again and again, or the
\* link keeps rejecting the offers, from some moment on no request_offer is
\* under way between the two sides.
C33_RequestOffersQuiesce ==
  \/ []<><<External>>_vars
  \/ []<>NegotiationFailed(RemoteId)
  \/ <>[]Quiet

\* ==================================================================
\* Properties of the local share

\* the local participant starts and stops presenting, by screen and by
\* camera, next to one peer; the stop operations are also what the ended
\* handler of a video track runs (lines 591-593 and 631-633)
NextShare ==
  \/ ConnectOnLoad
  \/ ConnectProceed
  \/ SocketOpen
  \/ RecvUserJoined
  \/ StartScreenShare
  \/ StartCameraShare
  \/ MediaDone
  \/ PcOpDone
  \/ StopScreenShare
  \/ StopCameraShare
  \/ PingTick
  \/ Disconnect

SpecShare == Init /\ [][NextShare]_vars

\* C34: in every reachable state the local stream is present whenever the
\* local participant is marked as sharing, by screen or by camera
C34_SharingHoldsStream ==
  (isScreenSharing \/ isCameraSharing) => localStream

\* C35: a screen_share_stopped message is handed to the transport only by
\* a step that began with the participant sharing, by screen or by camera;
\* a participant that is not sharing sends none, disconnect() included
C35_StopOnlyAfterShare ==
  [][(\E i \in DOMAIN sent' : sent'[i].type = "screen_share_stopped")
       => (isScreenSharing \/ isCameraSharing)]_vars

\* ==================================================================
\* Properties of a transport that drops and returns

\* a room in use (a peer that offers and presents) while the transport
\* drops and is reopened by the timer
\* connect() and the reconnect timer while the credential is 1, or (for the
\* timer) missing
ConnectSigned == ConnectCallOf({1})

ReconnectTimerFireSigned == ReconnectTimerFireOf({0, 1})

NextDrop ==
  \/ ConnectSigned
  \/ ConnectProceed
  \/ SocketOpen
  \/ SocketClose
  \/ ReconnectTimerFireSigned
  \/ RecvPeerShareStarted
  \/ RecvOffer
  \/ PcOpDone
  \/ PcTrack

SpecDrop == Init /\ [][NextDrop]_vars

\* a step of the transport handlers: onclose, onopen, or the reconnect
\* timer callback
TransportStep ==
  \/ Logged("WebSocket closed")'
  \/ Logged("WebSocket connected")'
  \/ Logged("No token for reconnect")'
  \/ (\E i \in Events("open-transport") : emitted[i].st = "timer")'

\* C36: a transport close and the reconnection after it change only the
\* connection and reconnect state: the peer registry, every link (its
\* signaling phase included), the pending candidate queues, the presenter
\* table, the remote streams, the local stream and the sharing flags are
\* after each step of onclose, of the reconnect timer and of onopen what
\* they were before it
C36_TransportLeavesRoomAlone ==
  [][TransportStep =>
       UNCHANGED <<peerConnections, pcs, pendingIceCandidates, presenters,
                   remoteStreams, localStream, isScreenSharing,
                   isCameraSharing>>]_vars

\* the transport reopened after a drop, with a link that holds a remote
\* description, a presenter and a remote stream in place
C36_Witness ==
  /\ Events("onReconnected") # {}
  /\ peerConnections # <<>>
  /\ \E i \in DOMAIN peerConnections :
       pcs[peerConnections[i].pc].remoteDescription # "none"
  /\ presenters # {}
  /\ remoteStreams # {}

\* C37: no outbound message is handed to the transport unless the transport
\* is open when the step that issues it begins; a message issued while the
\* transport is connecting, closed or reconnecting is dropped, and the step
\* in which a transport opens hands nothing over: nothing was queued
C37_SendOnlyWhenOpen ==
  [][/\ sent' # <<>> => wsOpen(Cur)
     /\ Logged("WebSocket connected")' => sent' = <<>>]_vars

\* a transport opens while the participant is already sharing: the
\* screen_share_started of that share was issued with no open transport
C37_Witness ==
  /\ Logged("WebSocket connected")
  /\ isScreenSharing \/ isCameraSharing
  /\ sent = <<>>

\* ==================================================================
\* Properties of connect() and disconnect()

\* the transport of a connect() fails before it, or any other, ever opened
\* (the state is still connecting), at attempt 0: an error event and a close
\* event with a non-terminal code
InitialConnectFails ==
  /\ wsState = "connecting"
  /\ wsSock.st = "connecting"
  /\ wsSock.origin = "connect"
  /\ reconnectAttempts = 0
  /\ wsSock'.st = "closed"
  /\ Logged("WebSocket closed")'

ConnectFailed == Events("connect-rejected") # {}

Retrying ==
  /\ wsState = "reconnecting"
  /\ reconnectAttempts = 1
  /\ TimersPending >= 1
  /\ \E i \in Events("setTimeout") : emitted[i].a = 1 /\ emitted[i].d = 1000

\* C38 as stated: a failed initial connect() reports the failure to its
\* caller and also starts automatic reconnection: the state becomes
\* reconnecting, with attempt count 1 and a retry timer of 1000 ms
C38_FailedConnectRetries ==
  [][InitialConnectFails => (ConnectFailed /\ Retrying)']_vars

\* C38: a failed initial connect() on an instance on which disconnect() was
\* never called reports the failure to its caller and also starts automatic
\* reconnection: the state becomes reconnecting, with attempt count 1 and a
\* retry timer of 1000 ms
C38_FailedConnectRetriesUnlessManual ==
  [][(InitialConnectFails /\ ~manualDisconnect)
       => (ConnectFailed /\ Retrying)']_vars

\* the failure was reported and the first retry is scheduled
C38_Witness ==
  /\ ConnectFailed
  /\ Retrying
  /\ ~manualDisconnect

\* C39: the manual-disconnect intent is permanent: once disconnect() has
\* been called, the intent stays set, and no later transport close starts
\* reconnection (no retry timer is scheduled and the state does not become
\* reconnecting), even after a fresh connect() that succeeded
C39_ManualIsPermanent ==
  [][manualDisconnect =>
       /\ manualDisconnect'
       /\ Logged("WebSocket closed")' =>
            (Events("setTimeout") = {} /\ wsState # "reconnecting")']_vars

\* C40: in every reachable state the reconnect attempt count is between 0
\* and maxReconnectAttempts; a step increases it only through startReconnect
\* scheduling a retry for each attempt number it passes, and decreases it
\* only to 0, in a step in which a transport opens
C40_AttemptsBounded ==
  [][/\ reconnectAttempts' \in 0..maxReconnectAttempts
     /\ \A k \in (reconnectAttempts + 1)..reconnectAttempts' :
          (\E i \in Events("setTimeout") : emitted[i].a = k)'
     /\ reconnectAttempts' < reconnectAttempts =>
          (reconnectAttempts = 0 /\ Logged("WebSocket connected"))']_vars

\* the last attempt allowed is scheduled
C40_Witness ==
  /\ reconnectAttempts = maxReconnectAttempts
  /\ wsState = "reconnecting"
  /\ Events("setTimeout") # {}

====
